---------------------------- MODULE Spec2Model ----------------------------
(***************************************************************************)
(* A model of keyberon's layout engine (src/src/layout.rs, action.rs).     *)
(* The variables are the fields of Layout; Event and Tick are the two      *)
(* public operations Layout::event and Layout::tick.  The remaining        *)
(* variables record what the caller did and what the last call returned,   *)
(* so that the properties of the engine can be stated over them.           *)
(***************************************************************************)
EXTENDS Integers, Sequences, FiniteSets, TLC

(***************************************************************************)
(* Bounds of the exploration.                                              *)
(***************************************************************************)
MaxEvents == 4
MaxTimeout == 2
MaxInterval == 5
BurstExtra == 3

(***************************************************************************)
(* Program constants.                                                      *)
(***************************************************************************)
StackCap == 32
StatesCap == 64
U16Max == 65535

Min(a, b) == IF a < b THEN a ELSE b
Max(a, b) == IF a > b THEN a ELSE b

saturating_sub(a, b) == Max(a - b, 0)
saturating_add(a, b) == Min(a + b, U16Max)

(***************************************************************************)
(* action.rs: the actions and the hold/tap configurations.                 *)
(***************************************************************************)
NoOp == [type |-> "NoOp"]
Trans == [type |-> "Trans"]
KeyCode(kc) == [type |-> "KeyCode", keycode |-> kc]
MultipleKeyCodes(v) == [type |-> "MultipleKeyCodes", keycodes |-> v]
MultipleActions(v) == [type |-> "MultipleActions", actions |-> v]
Layer(n) == [type |-> "Layer", value |-> n]
DefaultLayer(n) == [type |-> "DefaultLayer", value |-> n]
CustomAction(v) == [type |-> "Custom", value |-> v]
HoldTap(t, h, tp, cfg, i) ==
    [type |-> "HoldTap", timeout |-> t, hold |-> h, tap |-> tp,
     config |-> cfg, tap_hold_interval |-> i]

k(kc) == KeyCode(kc)
l(n) == Layer(n)

ConfigDefault == [kind |-> "Default"]
ConfigHoldOnOtherKeyPress == [kind |-> "HoldOnOtherKeyPress"]
ConfigPermissiveHold == [kind |-> "PermissiveHold"]
ConfigCustom(f) == [kind |-> "Custom", func |-> f]

(***************************************************************************)
(* layout.rs: events, custom events, states.                               *)
(***************************************************************************)
Press(i, j) == [kind |-> "Press", coord |-> <<i, j>>]
Release(i, j) == [kind |-> "Release", coord |-> <<i, j>>]
is_press(e) == e.kind = "Press"
is_release(e) == e.kind = "Release"

NoEvent == [kind |-> "NoEvent"]
CustomPress(v) == [kind |-> "Press", value |-> v]
CustomRelease(v) == [kind |-> "Release", value |-> v]

\* CustomEvent::update: the event only moves up in NoEvent < Press < Release.
CustomUpdate(self, e) ==
    IF e.kind = "Release" /\ self.kind \in {"NoEvent", "Press"} THEN e
    ELSE IF e.kind = "Press" /\ self.kind = "NoEvent" THEN e
    ELSE self

NormalKey(kc, c) == [kind |-> "NormalKey", keycode |-> kc, coord |-> c]
LayerModifier(v, c) == [kind |-> "LayerModifier", value |-> v, coord |-> c]
CustomState(v, c) == [kind |-> "Custom", value |-> v, coord |-> c]

\* State::release: TRUE when the state survives the release of coordinate c.
StateKeptOnRelease(s, c) == s.coord # c

\* A faulty variant of StateReleaseCustom: the release is reported as a press.
StateReleasePress(s, c) ==
    IF s.kind = "Custom" /\ s.coord = c THEN CustomPress(s.value) ELSE NoEvent

\* The custom event State::release reports for a state that it drops.
StateReleaseCustom(s, c) ==
    IF s.kind = "Custom" /\ s.coord = c THEN CustomRelease(s.value) ELSE NoEvent

\* A faulty variant of Stacked: the event enters the ring one tick old.
StackedAged(e) == [event |-> e, since |-> 1]

Stacked(e) == [event |-> e, since |-> 0]
StackedTick(s) == [s EXCEPT !.since = saturating_add(s.since, 1)]

\* A ring that refuses a new element when it is full.
push_back_saturating(st, x) ==
    IF Len(st) < StackCap THEN [ring |-> Append(st, x), popped |-> <<>>]
    ELSE [ring |-> st, popped |-> <<>>]

\* ArrayDeque<_, Wrapping>::push_back as Layout::event uses it: when the ring
\* is full the front element is removed and handed back.
push_back(st, x) ==
    IF Len(st) < StackCap THEN [ring |-> Append(st, x), popped |-> <<>>]
    ELSE [ring |-> Append(Tail(st), x), popped |-> <<Head(st)>>]

\* A faulty variant of VecPush: the value is appended whatever the length.
VecPushUnbounded(v, x) == Append(v, x)

\* heapless::Vec::push: the value is appended unless the vector is full.
VecPush(v, x) == IF Len(v) < StatesCap THEN Append(v, x) ELSE v


(***************************************************************************)
(* HoldTapConfig::Custom handlers: the four of test::custom_handler and    *)
(* the two of the documentation of HoldTapConfig::Custom.  A handler gets  *)
(* the stacked events in the order of the ring.                            *)
(***************************************************************************)
LeftCols == 6

\* A faulty variant of FirstPress: the handler is given the newest press.
NewestPress(stacked) ==
    LET idx == {x \in 1..Len(stacked) : is_press(stacked[x].event)}
    IN IF idx = {} THEN <<>>
       ELSE <<stacked[CHOOSE x \in idx : \A y \in idx : y <= x].event>>

\* stacked_iter.find(|s| s.event().is_press())
FirstPress(stacked) ==
    LET idx == {x \in 1..Len(stacked) : is_press(stacked[x].event)}
    IN IF idx = {} THEN <<>>
       ELSE <<stacked[CHOOSE x \in idx : \A y \in idx : x <= y].event>>

left_mod(stacked) ==
    LET p == FirstPress(stacked)
    IN IF p # <<>> /\ p[1].coord[2] < LeftCols THEN "Tap" ELSE "None"

right_mod(stacked) ==
    LET p == FirstPress(stacked)
    IN IF p # <<>> /\ p[1].coord[2] > LeftCols - 1 THEN "Tap" ELSE "None"

CallHandler(func, stacked) ==
    CASE func = "always_tap" -> "Tap"
      [] func = "always_hold" -> "Hold"
      [] func = "always_nop" -> "NoOp"
      [] func = "always_none" -> "None"
      [] func = "left_mod" -> left_mod(stacked)
      [] func = "right_mod" -> right_mod(stacked)

(***************************************************************************)
(* WaitingState::tick.  The decision is "Hold", "Tap", "NoOp" or "None"    *)
(* (still pending).                                                        *)
(***************************************************************************)
is_corresponding_release(w, event) ==
    is_release(event) /\ event.coord = w.coord

\* A faulty variant of AnyPressStacked: only the oldest event is looked at.
OldestIsPress(stacked) ==
    stacked # <<>> /\ is_press(stacked[1].event)

\* HoldOnOtherKeyPress: any press in the ring.
AnyPressStacked(stacked) ==
    \E x \in 1..Len(stacked) : is_press(stacked[x].event)

\* A faulty variant of PressThenRelease: the release must come right after
\* the press.
PressThenReleaseAdjacent(stacked) ==
    \E x \in 1..(Len(stacked) - 1) :
        /\ is_press(stacked[x].event)
        /\ is_release(stacked[x + 1].event)
        /\ stacked[x + 1].event.coord = stacked[x].event.coord

\* PermissiveHold: a press followed, later in the ring, by the release of
\* the same coordinate.
PressThenRelease(stacked) ==
    \E x \in 1..Len(stacked) :
        /\ is_press(stacked[x].event)
        /\ \E y \in (x + 1)..Len(stacked) :
              /\ is_release(stacked[y].event)
              /\ stacked[y].event.coord = stacked[x].event.coord

\* The match on self.config: a decision, or "None" to fall through.
ConfigDecision(config, stacked) ==
    CASE config.kind = "Default" -> "None"
      [] config.kind = "HoldOnOtherKeyPress" ->
            IF AnyPressStacked(stacked) THEN "Hold" ELSE "None"
      [] config.kind = "PermissiveHold" ->
            IF PressThenRelease(stacked) THEN "Hold" ELSE "None"
      [] config.kind = "Custom" -> CallHandler(config.func, stacked)

\* The first stacked release of the waiting key, if any.
CorrespondingRelease(w, stacked) ==
    LET idx == {x \in 1..Len(stacked) : is_corresponding_release(w, stacked[x].event)}
    IN IF idx = {} THEN <<>>
       ELSE <<stacked[CHOOSE x \in idx : \A y \in idx : x <= y]>>

\* self.timeout + since >= self.delay, on u16.
TapInTime(timeout, since, delay) == (timeout + since) % (U16Max + 1) >= delay

\* The timeout rule; w.timeout is already decremented.
TimeoutDecision(w, stacked) ==
    LET r == CorrespondingRelease(w, stacked)
    IN IF r # <<>>
       THEN IF TapInTime(w.timeout, r[1].since, w.delay) THEN "Tap" ELSE "Hold"
       ELSE IF w.timeout = 0 THEN "Hold" ELSE "None"

\* A faulty variant of WaitingTimeout: the timeout never runs down.
WaitingTimeoutKept(w) == w

\* self.timeout = self.timeout.saturating_sub(1)
WaitingTimeout(w) == [w EXCEPT !.timeout = saturating_sub(w.timeout, 1)]

WaitingTick(w, stacked) ==
    LET w1 == WaitingTimeout(w)
        c == ConfigDecision(w1.config, stacked)
    IN IF c # "None" THEN c ELSE TimeoutDecision(w1, stacked)

\* `self.timeout + since` on u16 operands: whether the sum leaves the range.
SumOverflows(w, stacked) ==
    LET w1 == WaitingTimeout(w)
        r == CorrespondingRelease(w1, stacked)
    IN /\ ConfigDecision(w1.config, stacked) = "None"
       /\ r # <<>>
       /\ w1.timeout + r[1].since > U16Max

\* WaitingState::tick as a build runs it: when the sum leaves the range a
\* build with overflow checks panics, one without decides on the wrapped
\* sum.
WaitingTickOn(w, stacked, checks) ==
    IF checks /\ SumOverflows(w, stacked) THEN "Panic"
    ELSE WaitingTick(w, stacked)

(***************************************************************************)
(* Layout: the pure parts.  self is the record of the fields of Layout     *)
(* that do_action reads and writes.                                        *)
(***************************************************************************)
LayersGet(layers, layer, coord) ==
    IF /\ layer < Len(layers)
       /\ coord[1] < Len(layers[layer + 1])
       /\ coord[2] < Len(layers[layer + 1][coord[1] + 1])
    THEN <<layers[layer + 1][coord[1] + 1][coord[2] + 1]>>
    ELSE <<>>

\* A faulty variant of press_as_action: what the default layer holds is
\* returned as it is.
press_as_action_through(ls, dl, coord, layer) ==
    LET action == LayersGet(ls, layer, coord)
    IN IF action = <<>> THEN NoOp
       ELSE IF action[1].type = "Trans" /\ layer # dl
            THEN IF LayersGet(ls, dl, coord) = <<>> THEN NoOp
                 ELSE LayersGet(ls, dl, coord)[1]
            ELSE action[1]

RECURSIVE press_as_action(_, _, _, _)
press_as_action(layers, default_layer, coord, layer) ==
    LET action == LayersGet(layers, layer, coord)
    IN IF action = <<>> THEN NoOp
       ELSE IF action[1].type = "Trans"
            THEN IF layer # default_layer
                 THEN press_as_action(layers, default_layer, coord, default_layer)
                 ELSE NoOp
            ELSE action[1]

\* A faulty variant of LastLayer: the oldest layer modifier wins.
OldestLayer(states) ==
    LET lm == SelectSeq(states, LAMBDA s : s.kind = "LayerModifier")
    IN IF lm = <<>> THEN <<>> ELSE <<lm[1].value>>

\* states.iter().rev().find_map(State::get_layer)
LastLayer(states) ==
    LET lm == SelectSeq(states, LAMBDA s : s.kind = "LayerModifier")
    IN IF lm = <<>> THEN <<>> ELSE <<lm[Len(lm)].value>>

current_layer(states, default_layer) ==
    LET f == LastLayer(states)
    IN IF f # <<>> THEN f[1] ELSE default_layer

\* A faulty variant of set_default_layer: the value is not checked.
set_default_layer_unchecked(self, value) == [self EXCEPT !.default_layer = value]

set_default_layer(self, value) ==
    IF value < Len(self.layers) THEN [self EXCEPT !.default_layer = value] ELSE self

\* A faulty variant of keycodes: the newest state is left out.
keycodes_but_newest(states) ==
    LET nk == SelectSeq(SubSeq(states, 1, Len(states) - 1),
                        LAMBDA s : s.kind = "NormalKey")
    IN [x \in 1..Len(nk) |-> nk[x].keycode]

keycodes(states) ==
    LET nk == SelectSeq(states, LAMBDA s : s.kind = "NormalKey")
    IN [x \in 1..Len(nk) |-> nk[x].keycode]

\* The result of an operation on self: the fields after it, the custom
\* event it returns, and whether it panicked.
Ret(self, custom) == [self |-> self, custom |-> custom, panic |-> FALSE]
Panic(self) == [self |-> self, custom |-> NoEvent, panic |-> TRUE]

\* The loop of the MultipleKeyCodes arm: one push per key code, each
\* dropped once the state set is full.
PushKeyCodes(states, v, coord) ==
    LET n == Min(Len(v), StatesCap - Len(states))
    IN states \o [x \in 1..n |-> NormalKey(v[x], coord)]

\* The test of do_action's HoldTap arm: TRUE installs a waiting state,
\* FALSE performs the tap at once.
InstallsWaiting(tracker, tap_hold_interval, coord) ==
    \/ tap_hold_interval = 0
    \/ coord # tracker.coord
    \/ tracker.timeout = 0

\* The arms of do_action that leave tap_hold_tracker.coord alone.
IgnoredByTracker(action) == action.type \in {"NoOp", "Trans"}

RECURSIVE do_action(_, _, _, _)
RECURSIVE do_actions(_, _, _, _, _, _)
do_action(self, action, coord, delay) ==
    IF self.waiting # <<>> THEN Panic(self)
    ELSE IF IgnoredByTracker(action) THEN Ret(self, NoEvent)
    ELSE IF action.type = "HoldTap" THEN
        IF InstallsWaiting(self.tap_hold_tracker, action.tap_hold_interval, coord)
        THEN Ret([self EXCEPT
                    !.waiting = <<[coord |-> coord, timeout |-> action.timeout,
                                   delay |-> delay, hold |-> action.hold,
                                   tap |-> action.tap, config |-> action.config]>>,
                    !.tap_hold_tracker =
                        [coord |-> coord, timeout |-> action.tap_hold_interval]],
                 NoEvent)
        ELSE LET r == do_action([self EXCEPT !.tap_hold_tracker.timeout = 0],
                                action.tap, coord, delay)
             IN IF r.panic THEN r
                ELSE Ret([r.self EXCEPT !.tap_hold_tracker.coord = coord], NoEvent)
    ELSE LET s1 == [self EXCEPT !.tap_hold_tracker.coord = coord]
         IN CASE action.type = "KeyCode" ->
                    Ret([s1 EXCEPT !.states =
                            VecPush(s1.states, NormalKey(action.keycode, coord))],
                        NoEvent)
              [] action.type = "MultipleKeyCodes" ->
                    Ret([s1 EXCEPT !.states =
                            PushKeyCodes(s1.states, action.keycodes, coord)],
                        NoEvent)
              [] action.type = "MultipleActions" ->
                    do_actions(s1, action.actions, 1, coord, delay, NoEvent)
              [] action.type = "Layer" ->
                    Ret([s1 EXCEPT !.states =
                            VecPush(s1.states, LayerModifier(action.value, coord))],
                        NoEvent)
              [] action.type = "DefaultLayer" ->
                    Ret(set_default_layer(s1, action.value), NoEvent)
              [] action.type = "Custom" ->
                    IF Len(s1.states) < StatesCap
                    THEN Ret([s1 EXCEPT !.states =
                                Append(s1.states, CustomState(action.value, coord))],
                             CustomPress(action.value))
                    ELSE Ret(s1, NoEvent)

\* The loop of the MultipleActions arm, from the i-th action on.
do_actions(self, v, i, coord, delay, custom) ==
    IF i > Len(v) THEN Ret(self, custom)
    ELSE LET r == do_action(self, v[i], coord, delay)
         IN IF r.panic THEN r
            ELSE do_actions(r.self, v, i + 1, coord, delay,
                            CustomUpdate(custom, r.custom))

waiting_into_hold(self) ==
    IF self.waiting # <<>>
    THEN LET w == self.waiting[1]
             s1 == [self EXCEPT !.waiting = <<>>]
             s2 == IF w.coord = s1.tap_hold_tracker.coord
                   THEN [s1 EXCEPT !.tap_hold_tracker.timeout = 0]
                   ELSE s1
         IN do_action(s2, w.hold, w.coord, 0)
    ELSE Ret(self, NoEvent)

waiting_into_tap(self) ==
    IF self.waiting # <<>>
    THEN LET w == self.waiting[1]
         IN do_action([self EXCEPT !.waiting = <<>>], w.tap, w.coord, 0)
    ELSE Ret(self, NoEvent)

drop_waiting(self) == Ret([self EXCEPT !.waiting = <<>>], NoEvent)

\* The custom event left by the releases of unstack's filter_map: the
\* first release reported wins (CustomEvent::update keeps a Release).
ReleaseCustom(states, c) ==
    LET rel == SelectSeq(states, LAMBDA s : StateReleaseCustom(s, c) # NoEvent)
    IN IF rel = <<>> THEN NoEvent
       ELSE CustomUpdate(NoEvent, StateReleaseCustom(rel[1], c))

\* The action Layout::unstack finds for the stacked event s.
StackedAction(self, s) ==
    press_as_action(self.layers, self.default_layer, s.event.coord,
                    current_layer(self.states, self.default_layer))

unstack(self, stacked) ==
    IF is_release(stacked.event)
    THEN LET c == stacked.event.coord
         IN Ret([self EXCEPT !.states =
                    SelectSeq(self.states, LAMBDA s : StateKeptOnRelease(s, c))],
                ReleaseCustom(self.states, c))
    ELSE LET c == stacked.event.coord
         IN do_action(self, StackedAction(self, stacked), c, stacked.since)

\* A Layout with its ring: self holds the other fields, custom is what the
\* last call returned, panicked tells that an assertion failed.
Lay(self, st, custom, panicked) ==
    [self |-> self, stacked |-> st, custom |-> custom, panicked |-> panicked]

\* Layout::new
new(ls) ==
    Lay([layers |-> ls, default_layer |-> 0, states |-> <<>>, waiting |-> <<>>,
         tap_hold_tracker |-> [coord |-> <<0, 0>>, timeout |-> 0]],
        <<>>, NoEvent, FALSE)

\* Layout::tick as a function of the layout, in a build with overflow
\* checks or without.
tick(lay, checks) ==
    LET st1 == [x \in 1..Len(lay.stacked) |-> StackedTick(lay.stacked[x])]
        self1 == [lay.self EXCEPT !.tap_hold_tracker.timeout = saturating_sub(@, 1)]
    IN IF lay.panicked THEN lay
       ELSE IF self1.waiting # <<>>
       THEN LET d == WaitingTickOn(self1.waiting[1], st1, checks)
                self2 == [self1 EXCEPT !.waiting = <<WaitingTimeout(self1.waiting[1])>>]
                r == CASE d = "Hold" -> waiting_into_hold(self2)
                       [] d = "Tap" -> waiting_into_tap(self2)
                       [] d = "NoOp" -> drop_waiting(self2)
                       [] d = "Panic" -> Panic(self2)
                       [] d = "None" -> Ret(self2, NoEvent)
            IN Lay(r.self, st1, r.custom, r.panic)
       ELSE IF st1 # <<>>
       THEN LET r == unstack(self1, Head(st1))
            IN Lay(r.self, Tail(st1), r.custom, r.panic)
       ELSE Lay(self1, st1, NoEvent, FALSE)

\* Layout::event as a function of the layout; it returns nothing.
event(lay, e) ==
    LET pb == push_back(lay.stacked, Stacked(e))
    IN IF lay.panicked THEN lay
       ELSE IF pb.popped = <<>> THEN Lay(lay.self, pb.ring, NoEvent, FALSE)
       ELSE LET r1 == waiting_into_hold(lay.self)
                r2 == IF r1.panic THEN r1 ELSE unstack(r1.self, pb.popped[1])
            IN Lay(r2.self, pb.ring, NoEvent, r2.panic)


(***************************************************************************)
(* debounce.rs: the debouncer.                                             *)
(***************************************************************************)
\* Debouncer::new
Debouncer(cur, new_, nb_bounce) ==
    [cur |-> cur, new |-> new_, since |-> 0, nb_bounce |-> nb_bounce,
     panicked |-> FALSE]

\* Debouncer::get
get(self) == self.cur

\* `self.since += 1` on a u16: at 65535 a build with overflow checks panics
\* and a build without them wraps to 0.
SinceIncremented(self) ==
    IF self.since < U16Max THEN {[self EXCEPT !.since = @ + 1]}
    ELSE {[self EXCEPT !.since = 0], [self EXCEPT !.panicked = TRUE]}

\* The end of Debouncer::update, once since is counted.
Validate(self) ==
    IF self.panicked THEN [self |-> self, ret |-> FALSE]
    ELSE IF self.since > self.nb_bounce
    THEN [self |-> [self EXCEPT !.cur = self.new, !.new = self.cur, !.since = 0],
          ret |-> TRUE]
    ELSE [self |-> self, ret |-> FALSE]

\* A faulty variant of update: since is not reset when the current state
\* is read again.
update_unreset(self, v) ==
    IF self.cur = v THEN {[self |-> self, ret |-> FALSE]}
    ELSE {Validate(t) :
            t \in IF self.new # v THEN {[self EXCEPT !.new = v, !.since = 1]}
                  ELSE SinceIncremented(self)}

\* Debouncer::update: the debouncers and return values it may end with.
update(self, v) ==
    IF self.cur = v THEN {[self |-> [self EXCEPT !.since = 0], ret |-> FALSE]}
    ELSE {Validate(t) :
            t \in IF self.new # v THEN {[self EXCEPT !.new = v, !.since = 1]}
                  ELSE SinceIncremented(self)}


U8 == 256

\* The filter_map of events on one row, from column j on (1-based here,
\* 0-based in the events); zip stops at the shorter row.
RECURSIVE RowEvents(_, _, _, _)
RowEvents(i, o, n, j) ==
    IF j > Len(o) \/ j > Len(n) THEN <<>>
    ELSE (IF ~o[j] /\ n[j]
          THEN <<[kind |-> "Press", coord |-> <<(i - 1) % U8, (j - 1) % U8>>]>>
          ELSE IF o[j] /\ ~n[j]
          THEN <<[kind |-> "Release", coord |-> <<(i - 1) % U8, (j - 1) % U8>>]>>
          ELSE <<>>)
         \o RowEvents(i, o, n, j + 1)

\* The flat_map of events, from row i on.
RECURSIVE MatrixEvents(_, _, _)
MatrixEvents(old, new_, i) ==
    IF i > Len(old) \/ i > Len(new_) THEN <<>>
    ELSE RowEvents(i, old[i], new_[i], 1) \o MatrixEvents(old, new_, i + 1)

\* A faulty variant of events: the states are compared as if update had
\* not swapped them.
events_unswapped(self, v) ==
    {[self |-> r.self, ret |-> r.ret,
      events |-> IF r.ret THEN MatrixEvents(r.self.cur, r.self.new, 1) ELSE <<>>] :
       r \in update(self, v)}

\* Debouncer::events: the debouncers, the results of update and the events
\* iterated it may end with.
events(self, v) ==
    {[self |-> r.self, ret |-> r.ret,
      events |-> IF r.ret THEN MatrixEvents(r.self.new, r.self.cur, 1) ELSE <<>>] :
       r \in update(self, v)}


(***************************************************************************)
(* key_code.rs: key codes and the keyboard report.                         *)
(***************************************************************************)
No == 0
ErrorRollOver == 1
PostFail == 2
ErrorUndefined == 3
A == 4
B == 5
LCtrl == 224
RGui == 231

ReportLen == 8
FirstSlot == 3         \* self.0[2..], counted from 1

\* KeyCode::is_modifier
is_modifier(kc) == LCtrl <= kc /\ kc <= RGui

\* KeyCode::as_modifier_bit
as_modifier_bit(kc) == IF is_modifier(kc) THEN 2 ^ (kc - LCtrl) ELSE 0

\* a | b on two bytes.
RECURSIVE BitOr(_, _)
BitOr(a, b) ==
    IF a = 0 THEN b
    ELSE IF b = 0 THEN a
    ELSE (IF a % 2 = 1 \/ b % 2 = 1 THEN 1 ELSE 0) + 2 * BitOr(a \div 2, b \div 2)

\* KbHidReport::default
KbHidReport == [x \in 1..ReportLen |-> 0]

\* KbHidReport::as_bytes
as_bytes(self) == self

\* KbHidReport::set_all
set_all(self, kc) == [x \in 1..ReportLen |-> IF x >= FirstSlot THEN kc ELSE self[x]]

\* self.0[2..].iter_mut().find(|c| **c == 0), when there is one.
Find(self) ==
    CHOOSE x \in FirstSlot..ReportLen :
       self[x] = 0 /\ \A y \in FirstSlot..(x - 1) : self[y] # 0

\* A faulty variant of pressed: a modifier also takes a slot.
pressed_modifier_in_slot(self, kc) ==
    IF kc = No THEN self
    ELSE IF kc \in {ErrorRollOver, PostFail, ErrorUndefined} THEN set_all(self, kc)
    ELSE LET r == IF is_modifier(kc)
                  THEN [self EXCEPT ![1] = BitOr(@, as_modifier_bit(kc))]
                  ELSE self
         IN IF \E x \in FirstSlot..ReportLen : r[x] = 0
            THEN [r EXCEPT ![Find(r)] = kc]
            ELSE set_all(r, ErrorRollOver)

\* KbHidReport::pressed
pressed(self, kc) ==
    IF kc = No THEN self
    ELSE IF kc \in {ErrorRollOver, PostFail, ErrorUndefined} THEN set_all(self, kc)
    ELSE IF is_modifier(kc) THEN [self EXCEPT ![1] = BitOr(@, as_modifier_bit(kc))]
    ELSE IF \E x \in FirstSlot..ReportLen : self[x] = 0
    THEN [self EXCEPT ![Find(self)] = kc]
    ELSE set_all(self, ErrorRollOver)


(***************************************************************************)
(* keyboard.rs: the keyboard HID device.                                   *)
(***************************************************************************)
Ok(v) == [ok |-> TRUE, value |-> v]
Err == [ok |-> FALSE]

\* a & b on two bytes.
RECURSIVE BitAnd(_, _)
BitAnd(a, b) ==
    IF a = 0 \/ b = 0 THEN 0
    ELSE (IF a % 2 = 1 /\ b % 2 = 1 THEN 1 ELSE 0) + 2 * BitAnd(a \div 2, b \div 2)

\* A Leds that keeps the last status given to each of its methods.
LedsOff ==
    [num_lock |-> FALSE, caps_lock |-> FALSE, scroll_lock |-> FALSE,
     compose |-> FALSE, kana |-> FALSE]

\* Keyboard::new
Keyboard(leds) == [report |-> KbHidReport, leds |-> leds]

\* A faulty variant of set_keyboard_report: the report is stored and
\* announced as modified whatever it is.
set_keyboard_report_always(self, r) ==
    [self |-> [self EXCEPT !.report = r], ret |-> TRUE]

\* Keyboard::set_keyboard_report: the keyboard afterwards and the result.
set_keyboard_report(self, r) ==
    IF r = self.report THEN [self |-> self, ret |-> FALSE]
    ELSE [self |-> [self EXCEPT !.report = r], ret |-> TRUE]

\* Keyboard::get_report
get_report(self, report_type, report_id) ==
    IF report_type = "Input" THEN Ok(as_bytes(self.report)) ELSE Err

\* A faulty variant of set_report: the report id is not looked at.
set_report_any_id(self, report_type, report_id, data) ==
    IF report_type = "Output" /\ Len(data) = 1
    THEN LET d == data[1]
             calls == <<(<<"num_lock", BitAnd(d, 1) # 0>>),
                        <<"caps_lock", BitAnd(d, 2 ^ 1) # 0>>,
                        <<"scroll_lock", BitAnd(d, 2 ^ 2) # 0>>,
                        <<"compose", BitAnd(d, 2 ^ 3) # 0>>,
                        <<"kana", BitAnd(d, 2 ^ 4) # 0>>>>
         IN [self |-> [self EXCEPT !.leds =
                         [led \in DOMAIN @ |->
                            LET x == CHOOSE y \in 1..5 : calls[y][1] = led
                            IN calls[x][2]]],
             ret |-> Ok(<<>>), calls |-> calls]
    ELSE [self |-> self, ret |-> Err, calls |-> <<>>]

\* Keyboard::set_report: the keyboard afterwards, the result and the
\* calls made to the Leds.
set_report(self, report_type, report_id, data) ==
    IF report_type = "Output" /\ report_id = 0 /\ Len(data) = 1
    THEN LET d == data[1]
             calls == <<(<<"num_lock", BitAnd(d, 1) # 0>>),
                        <<"caps_lock", BitAnd(d, 2 ^ 1) # 0>>,
                        <<"scroll_lock", BitAnd(d, 2 ^ 2) # 0>>,
                        <<"compose", BitAnd(d, 2 ^ 3) # 0>>,
                        <<"kana", BitAnd(d, 2 ^ 4) # 0>>>>
         IN [self |-> [self EXCEPT !.leds =
                         [led \in DOMAIN @ |->
                            LET x == CHOOSE y \in 1..5 : calls[y][1] = led
                            IN calls[x][2]]],
             ret |-> Ok(<<>>), calls |-> calls]
    ELSE [self |-> self, ret |-> Err, calls |-> <<>>]


(***************************************************************************)
(* chording.rs: chords.                                                    *)
(***************************************************************************)
ChordCap == 8          \* Vec<bool, 8>, Vec<Event, 8>
CollectCap == 4        \* Vec<Event, 4>
ChordsCap == 16        \* Vec<Chord, 16>

\* ChordDef::new
ChordDef(result, ks) == [keys |-> ks, result |-> result]

\* Chord::new: one push per key, the push beyond the capacity of
\* keys_pressed is unwrapped and panics.
Chord(def) ==
    IF Len(def.keys) > ChordCap THEN [panic |-> TRUE]
    ELSE [def |-> def, in_progress |-> FALSE,
          keys_pressed |-> [x \in 1..Len(def.keys) |-> FALSE]]

\* Chording::new: one push per chord; it panics in Chord::new, or on the
\* push beyond the capacity of chords, and then there is no chording.
Chording(defs) ==
    IF \/ Len(defs) > ChordsCap
       \/ \E x \in 1..Len(defs) : Len(defs[x].keys) > ChordCap
    THEN [chords |-> <<>>, panicked |-> TRUE]
    ELSE [chords |-> [x \in 1..Len(defs) |-> Chord(defs[x])], panicked |-> FALSE]

All(v) == \A x \in 1..Len(v) : v[x]
None(v) == \A x \in 1..Len(v) : ~v[x]

\* Chord::process: the chord afterwards and the event it returns, if any.
process(chord, e) ==
    IF is_press(e)
    THEN IF ~chord.in_progress
         THEN LET kp == [x \in 1..Len(chord.keys_pressed) |->
                           chord.keys_pressed[x] \/ chord.def.keys[x] = e.coord]
              IN IF All(kp)
                 THEN [chord |-> [chord EXCEPT !.in_progress = TRUE,
                                               !.keys_pressed = kp],
                       out |-> <<[kind |-> "Press", coord |-> chord.def.result]>>]
                 ELSE [chord |-> [chord EXCEPT !.keys_pressed = kp], out |-> <<>>]
         ELSE [chord |-> chord, out |-> <<>>]
    ELSE LET kp == [x \in 1..Len(chord.keys_pressed) |->
                      chord.keys_pressed[x] /\ chord.def.keys[x] # e.coord]
         IN IF chord.in_progress /\ None(kp)
            THEN [chord |-> [chord EXCEPT !.in_progress = FALSE,
                                          !.keys_pressed = [x \in DOMAIN kp |-> FALSE]],
                  out |-> <<[kind |-> "Release", coord |-> chord.def.result]>>]
            ELSE [chord |-> [chord EXCEPT !.keys_pressed = kp], out |-> <<>>]

\* The closure of Chording::tick on one event, from the i-th chord on: the
\* chords afterwards, the event it returns and what it adds to vec_remove.
RECURSIVE MapEvent(_, _, _)
MapEvent(chords, i, e) ==
    IF i > Len(chords) THEN [chords |-> chords, out |-> e, remove |-> <<>>]
    ELSE LET r == process(chords[i], e)
             cs == [chords EXCEPT ![i] = r.chord]
         IN IF r.out # <<>>
            THEN [chords |-> cs, out |-> r.out[1],
                  remove |-> [x \in 1..Len(chords[i].def.keys) |->
                                [kind |-> r.out[1].kind,
                                 coord |-> chords[i].def.keys[x]]]]
            ELSE MapEvent(cs, i + 1, e)

\* The map and collect of Chording::tick from the i-th event on.  extend
\* on a full vec_remove and collect beyond the capacity of events panic.
RECURSIVE MapEvents(_, _, _, _, _)
MapEvents(chords, vec, i, evs, remove) ==
    IF i > Len(vec)
    THEN [chords |-> chords, events |-> evs, remove |-> remove, panic |-> FALSE]
    ELSE LET r == MapEvent(chords, 1, vec[i])
         IN IF \/ Len(remove) + Len(r.remove) > ChordCap
               \/ Len(evs) + 1 > CollectCap
            THEN [chords |-> r.chords, events |-> evs, remove |-> remove,
                  panic |-> TRUE]
            ELSE MapEvents(r.chords, vec, i + 1, Append(evs, r.out),
                           remove \o r.remove)

\* Chording::tick: the chording afterwards and the vector it returns.
chording_tick(self, vec) ==
    LET r == MapEvents(self.chords, vec, 1, <<>>, <<>>)
    IN [self |-> [chords |-> r.chords, panicked |-> r.panic],
        out |-> IF r.panic THEN <<>>
                ELSE SelectSeq(r.events,
                               LAMBDA e : \A x \in 1..Len(r.remove) : r.remove[x] # e)]


(***************************************************************************)
(* The keyboards explored: an action table and the coordinates the caller  *)
(* presses.  K0, K1 and K6 are three keys of row 0; K6 lies on the right   *)
(* side of left_mod and right_mod.                                         *)
(***************************************************************************)
K0 == <<0, 0>>
K1 == <<0, 1>>
K6 == <<0, 6>>

\* One row of seven columns with the given actions at columns 0, 1 and 6.
Row(a0, a1, a6) == <<a0, a1, NoOp, NoOp, NoOp, NoOp, a6>>

Configs ==
    {ConfigDefault, ConfigHoldOnOtherKeyPress, ConfigPermissiveHold,
     ConfigCustom("always_tap"), ConfigCustom("always_hold"),
     ConfigCustom("always_nop"), ConfigCustom("always_none"),
     ConfigCustom("left_mod"), ConfigCustom("right_mod")}

\* test::hold_on_press, test::permissive_hold, test::custom_handler,
\* test::tap_hold_interval: a HoldTap key beside a plain key.
HoldTapBoard(t, cfg, i) ==
    [layers |-> << <<Row(HoldTap(t, k("LAlt"), k("Space"), cfg, i),
                         k("Enter"), NoOp)>> >>,
     keys |-> {K0, K1}, burst |-> "no"]

\* test::tap_hold_interval_interleave: between two presses of the HoldTap
\* key another key is pressed, bound to a key code, to NoOp or to Trans.
InterleaveBoard(a6) ==
    [layers |-> << <<Row(HoldTap(MaxTimeout, k("LAlt"), k("Space"),
                                 ConfigDefault, MaxInterval),
                         k("Enter"), a6)>> >>,
     keys |-> {K0, K6}, burst |-> "no"]

\* test::hold_tap_interleaved_timeout: two HoldTap keys.
TwoHoldTapBoard(t0, t1) ==
    [layers |-> << <<Row(HoldTap(t0, k("LAlt"), k("Space"), ConfigDefault, 0),
                         HoldTap(t1, k("LCtrl"), k("Enter"), ConfigDefault, 0),
                         NoOp)>> >>,
     keys |-> {K0, K1}, burst |-> "no"]

\* The handlers that look at the ring, with keys on both sides.
HandlerBoard(f) ==
    [layers |-> << <<Row(HoldTap(MaxTimeout, k("LAlt"), k("Space"),
                                 ConfigCustom(f), 0),
                         k("Enter"), k("B"))>> >>,
     keys |-> {K0, K1, K6}, burst |-> "no"]

\* test::multiple_layers, with a default-layer key and test::multiple_actions.
LayerBoard ==
    [layers |-> << <<Row(l(1), l(2), DefaultLayer(1))>>,
                   <<Row(k("A"), l(3), DefaultLayer(4))>>,
                   <<Row(l(0), k("B"), Trans)>>,
                   <<Row(MultipleActions(<<l(1), k("LShift")>>), Trans,
                         CustomAction(42))>> >>,
     keys |-> {K0, K1, K6}, burst |-> "no"]

\* A key that fills the state set, beside a layer key and a custom key.
FullBoard ==
    [layers |-> << <<Row(MultipleKeyCodes([x \in 1..StatesCap |-> "A"]),
                         l(1), CustomAction(42))>>,
                   <<Row(Trans, Trans, k("C"))>> >>,
     keys |-> {K0, K1, K6}, burst |-> "no"]

\* A single HoldTap key whose events the caller registers in one burst,
\* faster than the ticks drain the ring.
BurstBoard ==
    [layers |-> << <<Row(HoldTap(MaxTimeout, k("LAlt"), k("Space"),
                                 ConfigDefault, 0),
                         NoOp, NoOp)>> >>,
     keys |-> {K0}, burst |-> "first"]

\* A HoldTap key whose tap holds a layer: the HoldTap stands in a list of
\* actions, or is itself the tap of a HoldTap.
LayerTapBoard(a0) ==
    [layers |-> << <<Row(a0, k("F"), NoOp)>>, <<Row(Trans, k("E"), NoOp)>> >>,
     keys |-> {K0}, burst |-> "no"]

Boards ==
    {LayerTapBoard(a) :
        a \in {MultipleActions(<<HoldTap(MaxTimeout, k("LAlt"), l(1),
                                         ConfigDefault, MaxInterval)>>),
               HoldTap(MaxTimeout, k("LAlt"),
                       HoldTap(MaxTimeout, k("LCtrl"), l(1),
                               ConfigDefault, MaxInterval),
                       ConfigDefault, MaxInterval)}}
    \cup
    {HoldTapBoard(t, ConfigDefault, i) : t \in 0..MaxTimeout, i \in {0, MaxInterval}}
    \cup {HoldTapBoard(MaxTimeout, cfg, 0) : cfg \in Configs}
    \cup {HoldTapBoard(0, cfg, 0) : cfg \in Configs}
    \cup {InterleaveBoard(a) : a \in {k("B"), NoOp, Trans}}
    \cup {TwoHoldTapBoard(MaxTimeout, t) : t \in 0..MaxTimeout}
    \cup {HandlerBoard(f) : f \in {"left_mod", "right_mod"}}
    \cup {LayerBoard, FullBoard, BurstBoard}

(***************************************************************************)
(* The state.                                                              *)
(***************************************************************************)
VARIABLES
    layers,            \* Layout.layers
    default_layer,     \* Layout.default_layer
    states,            \* Layout.states
    waiting,           \* Layout.waiting: <<>> is None, <<w>> is Some(w)
    stacked,           \* Layout.stacked
    tap_hold_tracker,  \* Layout.tap_hold_tracker
    panicked,          \* an assertion of the layout failed
    keys,              \* the coordinates the caller presses
    burst,             \* "no", or where a burst of events stands: the caller
                       \* registers them until the tick after the next one
                       \* ("first") or until the next tick ("second"), and
                       \* none once the burst is "over"
    down,              \* coordinates whose last registered event is a Press
    nevents,           \* number of calls of event() so far
    presses,           \* registered presses not yet decided, oldest first
    pending,           \* what the caller knows of the waiting state
    hist,              \* the press applied last
    heldLayers,        \* Layer actions applied and not yet released
    lastApplied,       \* per coordinate, the kind of the event applied last
    registered,        \* the events passed to event(), in order
    applied,           \* the events applied by unstack(), in order
    last,              \* what the last call did and returned
    debouncer,         \* a Debouncer
    updates,           \* what the caller of the debouncer has seen
    chording,          \* a Chording
    chorded,           \* what the caller of the chording has seen
    report,            \* a KbHidReport
    reported,          \* the key codes its caller has pressed
    keyboard,          \* a Keyboard
    host,              \* the last call on the keyboard and what came of it
    rtic,              \* the interrupt handlers of the firmware
    matrix             \* a Matrix, its pins and the switches behind them

vars == <<layers, default_layer, states, waiting, stacked, tap_hold_tracker,
          panicked, keys, burst, down, nevents, presses, pending, hist, heldLayers,
          lastApplied, registered, applied, last, debouncer, updates,
          chording, chorded, report, reported, keyboard, host, rtic,
          matrix>>

\* The variables by component.
LayoutVars ==
    <<layers, default_layer, states, waiting, stacked, tap_hold_tracker,
      panicked, keys, burst, down, nevents, presses, pending, hist, heldLayers,
      lastApplied, registered, applied, last>>
DebouncerVars == <<debouncer, updates>>
ChordingVars == <<chording, chorded>>
ReportVars == <<report, reported>>
KeyboardVars == <<keyboard, host>>
BesideLayout == <<DebouncerVars, ChordingVars, ReportVars, KeyboardVars, rtic, matrix>>
BesideDebouncer == <<LayoutVars, ChordingVars, ReportVars, KeyboardVars, rtic, matrix>>
BesideChording == <<LayoutVars, DebouncerVars, ReportVars, KeyboardVars, rtic, matrix>>
BesideReport == <<LayoutVars, DebouncerVars, ChordingVars, KeyboardVars, rtic, matrix>>
BesideKeyboard == <<LayoutVars, DebouncerVars, ChordingVars, ReportVars, rtic, matrix>>
BesideRtic ==
    <<LayoutVars, DebouncerVars, ChordingVars, ReportVars, KeyboardVars, matrix>>
BesideMatrix ==
    <<LayoutVars, DebouncerVars, ChordingVars, ReportVars, KeyboardVars, rtic>>

\* The fields of Layout as one record.
Self ==
    [layers |-> layers, default_layer |-> default_layer, states |-> states,
     waiting |-> waiting, tap_hold_tracker |-> tap_hold_tracker]

\* The observations as one record.
Obs ==
    [presses |-> presses, pending |-> pending, hist |-> hist,
     heldLayers |-> heldLayers, lastApplied |-> lastApplied]

HeldCap == MaxTimeout + 1
HistCap == MaxInterval + 1

EventBudget == IF burst = "no" THEN MaxEvents ELSE StackCap + BurstExtra

NoPress ==
    [coord |-> <<255, 255>>, type |-> "None", tap |-> NoOp, ticks |-> 0,
     outcome |-> "none", first |-> "none", before |-> <<255, 255>>,
     shown |-> FALSE, clean |-> TRUE]
LastInit ==
    [op |-> "new", custom |-> NoEvent, applied |-> <<>>, press |-> <<>>,
     consulted |-> <<>>, overflow |-> FALSE]

\* What the caller has seen of a debouncer built with current state cur.
NoUpdates(cur) ==
    [initial |-> cur, value |-> cur, run |-> 0, longest |-> 0, changed |-> FALSE,
     ret |-> FALSE, before |-> cur, events |-> <<>>]

\* Layout::new
New(boards) ==
    /\ \E b \in boards : layers = b.layers /\ keys = b.keys /\ burst = b.burst
    /\ default_layer = 0
    /\ states = <<>>
    /\ waiting = <<>>
    /\ stacked = <<>>
    /\ tap_hold_tracker = [coord |-> <<0, 0>>, timeout |-> 0]
    /\ panicked = FALSE
    /\ down = {}
    /\ nevents = 0
    /\ presses = <<>>
    /\ pending = <<>>
    /\ hist = NoPress
    /\ heldLayers = <<>>
    /\ lastApplied = [c \in keys |-> "none"]
    /\ registered = <<>>
    /\ applied = <<>>
    /\ last = LastInit

\* What the caller has seen of a chording just built.
NoTicks ==
    [keys |-> {}, sorted |-> TRUE, down |-> {}, downBefore |-> {},
     input |-> <<>>, output |-> <<>>, before |-> <<>>, open |-> {}]

\* A debouncer nobody updates, a chording without chords.
DebouncerIdle == debouncer = Debouncer(0, 0, 0) /\ updates = NoUpdates(0)
ChordingIdle == chording = Chording(<<>>) /\ chorded = NoTicks

\* A default report: no key code pressed.
NonePressed == [slots |-> <<>>, mods |-> {}, no |-> FALSE]
ReportIdle == report = KbHidReport /\ reported = NonePressed

\* A keyboard nobody has called.
NoCall ==
    [op |-> "new", args |-> <<>>, ret |-> <<>>, before |-> KbHidReport,
     leds |-> LedsOff, calls |-> <<>>, written |-> <<>>, sending |-> <<>>]
KeyboardIdle == keyboard = Keyboard(LedsOff) /\ host = NoCall

\* A matrix without pins.
ScanIdle ==
    matrix = [rows |-> <<>>, pc |-> "idle", r |-> 0, c |-> 0, col |-> <<>>,
              pressed |-> <<>>, closed |-> {}, seen |-> <<>>, low |-> {}]

\* No interrupt pending, no handler running, no resource touched.
RticIdle ==
    rtic = [pending |-> {}, stack |-> <<>>, touched |-> {}, endpoint |-> "free"]

\* A layout alone.
InitOn(boards) ==
    /\ New(boards)
    /\ DebouncerIdle
    /\ ChordingIdle
    /\ ReportIdle
    /\ KeyboardIdle
    /\ RticIdle
    /\ ScanIdle

Init == InitOn(Boards)


(***************************************************************************)
(* What the caller observes.  These operators follow the calls in time;    *)
(* they read the engine's decisions but never feed back into them.         *)
(***************************************************************************)
WaitedCap == MaxTimeout + 2

\* A call of tick(): one more tick for every key still held, for the
\* waiting state and since the last applied press.
ObsTick(o) ==
    [o EXCEPT
       !.presses = [x \in 1..Len(o.presses) |->
                      IF o.presses[x].released THEN o.presses[x]
                      ELSE [o.presses[x] EXCEPT !.ticks = Min(@ + 1, HeldCap)]],
       !.pending = [x \in 1..Len(o.pending) |->
                      [o.pending[x] EXCEPT !.waited = Min(@ + 1, WaitedCap)]],
       !.hist = [o.hist EXCEPT !.ticks = Min(@ + 1, HistCap)]]

\* A call of event(e): a press starts being held, a release ends the hold
\* of the latest press of its key.
ObsRegister(ps, e) ==
    IF is_press(e)
    THEN Append(ps, [coord |-> e.coord, ticks |-> 0, released |-> FALSE])
    ELSE LET idx == {x \in 1..Len(ps) : ps[x].coord = e.coord /\ ~ps[x].released}
         IN IF idx = {} THEN ps
            ELSE [ps EXCEPT ![CHOOSE x \in idx : \A y \in idx : y <= x].released = TRUE]

\* The Layer actions that do_action(self, action, coord, delay) performs,
\* in order: the value, and whether the state set had room for it.  The
\* members of a list are followed through the layout each one leaves.
RECURSIVE LayerActs(_, _, _, _)
RECURSIVE LayerActsOf(_, _, _, _, _)
LayerActs(self, action, coord, delay) ==
    IF self.waiting # <<>> THEN <<>>
    ELSE CASE action.type = "Layer" ->
                 <<[value |-> action.value, kept |-> Len(self.states) < StatesCap]>>
           [] action.type = "MultipleActions" ->
                 LayerActsOf([self EXCEPT !.tap_hold_tracker.coord = coord],
                             action.actions, 1, coord, delay)
           [] action.type = "HoldTap" ->
                 IF InstallsWaiting(self.tap_hold_tracker,
                                    action.tap_hold_interval, coord)
                 THEN <<>>
                 ELSE LayerActs([self EXCEPT !.tap_hold_tracker.timeout = 0],
                                action.tap, coord, delay)
           [] OTHER -> <<>>
LayerActsOf(self, v, i, coord, delay) ==
    IF i > Len(v) THEN <<>>
    ELSE LET r == do_action(self, v[i], coord, delay)
         IN LayerActs(self, v[i], coord, delay)
            \o (IF r.panic THEN <<>>
                ELSE LayerActsOf(r.self, v, i + 1, coord, delay))

HoldLayers(hl, coord, acts) ==
    hl \o [x \in 1..Len(acts) |->
             [coord |-> coord, value |-> acts[x].value, kept |-> acts[x].kept]]

\* What the caller knows of a waiting state that was just installed: its
\* timeout and the tap_hold_interval of the HoldTap that installed it, with
\* which do_action armed the tracker on installing.
PendingOf(self) ==
    IF self.waiting = <<>> THEN <<>>
    ELSE <<[timeout |-> self.waiting[1].timeout,
            interval |-> self.tap_hold_tracker.timeout, waited |-> 0]>>

ReleaseStacked(coord, st) ==
    \E x \in 1..Len(st) : st[x].event = [kind |-> "Release", coord |-> coord]

\* The caller's reading of "a press of some key followed by the release of
\* that key while the waiting key is still held": the release of the other
\* key comes before any release of the waiting key.
ReleasedWhileHeld(coord, st) ==
    \E x \in 1..Len(st) : \E y \in (x + 1)..Len(st) :
        /\ st[x].event.kind = "Press"
        /\ st[y].event = [kind |-> "Release", coord |-> st[x].event.coord]
        /\ \A z \in 1..(y - 1) : st[z].event # [kind |-> "Release", coord |-> coord]

\* The age of the first stacked release of coord, 0 if there is none.
ReleaseSince(coord, st) ==
    LET idx == {x \in 1..Len(st) : st[x].event = [kind |-> "Release", coord |-> coord]}
    IN IF idx = {} THEN 0 ELSE st[CHOOSE x \in idx : \A y \in idx : x <= y].since

\* The waiting state w (its timeout already decremented) is consulted with
\* the ring st and decides d: "Hold", "Tap", "NoOp", or "None" (pending).
ObsConsulted(o, w, d, st) ==
    [coord |-> w.coord, how |-> d, config |-> w.config,
     hold |-> w.hold, tap |-> w.tap,
     timeout |-> o.pending[1].timeout, interval |-> o.pending[1].interval,
     waited |-> o.pending[1].waited,
     held |-> o.presses[1].ticks, released |-> o.presses[1].released,
     remaining |-> w.timeout, delay |-> w.delay,
     ring |-> [x \in 1..Len(st) |-> st[x].event],
     release_stacked |-> ReleaseStacked(w.coord, st),
     release_since |-> ReleaseSince(w.coord, st),
     queued |-> [x \in 1..(Len(o.presses) - 1) |-> o.presses[x + 1].coord]]

\* The layout on which waiting_into_hold or waiting_into_tap calls
\* do_action: the waiting state is taken, a hold disarms the tracker.
Resolving(self, w, d) ==
    LET s1 == [self EXCEPT !.waiting = <<>>]
    IN IF d = "Hold" /\ w.coord = s1.tap_hold_tracker.coord
       THEN [s1 EXCEPT !.tap_hold_tracker.timeout = 0]
       ELSE s1

\* The waiting state w of self is resolved as d, with result r.
ObsResolve(o, w, d, r, self) ==
    LET done == r.self.waiting = <<>>
        act == IF d = "Hold" THEN w.hold ELSE IF d = "Tap" THEN w.tap ELSE NoOp
    IN [o EXCEPT
          !.presses = IF done THEN Tail(@) ELSE @,
          !.pending = PendingOf(r.self),
          !.hist = IF @.coord = w.coord
                   THEN [@ EXCEPT !.outcome = d,
                                  !.first = IF @ = "pending" THEN d ELSE @]
                   ELSE @,
          !.heldLayers = HoldLayers(@, w.coord,
                                    LayerActs(Resolving(self, w, d), act,
                                              w.coord, 0))]

\* The press of coordinate c is applied: action is what press_as_action
\* gave, r the result of do_action.
ObsPressed(o, c, action, r) ==
    [coord |-> c, type |-> action.type,
     tap |-> IF action.type = "HoldTap" THEN action.tap ELSE NoOp,
     interval |-> IF action.type = "HoldTap" THEN action.tap_hold_interval ELSE 0,
     prev |-> o.hist,
     installs |-> r.self.waiting # <<>>,
     states |-> Len(r.self.states)]

ObsPress(o, c, action, r, self, delay) ==
    LET installs == r.self.waiting # <<>>
        immediate == action.type = "HoldTap" /\ ~installs
    IN [o EXCEPT
          !.presses = IF installs THEN @ ELSE Tail(@),
          !.pending = PendingOf(r.self),
          !.hist = [coord |-> c, type |-> action.type,
                    tap |-> IF action.type = "HoldTap" THEN action.tap ELSE NoOp,
                    before |-> o.hist.coord, ticks |-> 0,
                    outcome |-> IF installs THEN "pending"
                                ELSE IF immediate THEN "immediate" ELSE "plain",
                    first |-> IF installs THEN "pending"
                              ELSE IF immediate THEN "immediate" ELSE "plain",
                    shown |-> FALSE, clean |-> TRUE],
          !.heldLayers = HoldLayers(@, c, LayerActs(self, action, c, delay)),
          !.lastApplied = [@ EXCEPT ![c] = "press"]]

ObsRelease(o, c) ==
    [o EXCEPT
       !.heldLayers = SelectSeq(@, LAMBDA h : h.coord # c),
       !.lastApplied = [@ EXCEPT ![c] = "release"]]

\* A call of tick() returns with the states sts: the caller reads
\* keycodes() and sees the key codes of the last applied press, if any.
ObsShown(o, sts) ==
    [o EXCEPT !.hist.shown =
       @ \/ \E x \in 1..Len(sts) :
               /\ sts[x].kind = "NormalKey" /\ sts[x].coord = o.hist.coord
               /\ \E y \in 1..Len(keycodes(sts)) : keycodes(sts)[y] = sts[x].keycode]

\* A call of event() found the ring full.
ObsOverflow(o) == [o EXCEPT !.hist.clean = FALSE]

\* The stacked event s was applied to self with result r (Layout::unstack),
\* action being the action of a press: what the caller observes of it.
Unstacked(self, o, s, action, r) ==
    [r |-> r,
     o |-> IF is_release(s.event) THEN ObsRelease(o, s.event.coord)
           ELSE ObsPress(o, s.event.coord, action, r, self, s.since),
     press |-> IF is_release(s.event) THEN <<>>
               ELSE <<ObsPressed(o, s.event.coord, action, r)>>]

(***************************************************************************)
(* The operations.                                                         *)
(***************************************************************************)
\* The fields of Layout and the observations after an operation.
Commit(r, st, o) ==
    /\ layers' = layers
    /\ default_layer' = r.self.default_layer
    /\ states' = r.self.states
    /\ waiting' = r.self.waiting
    /\ tap_hold_tracker' = r.self.tap_hold_tracker
    /\ panicked' = r.panic
    /\ stacked' = st
    /\ presses' = o.presses
    /\ pending' = o.pending
    /\ hist' = o.hist
    /\ heldLayers' = o.heldLayers
    /\ lastApplied' = o.lastApplied

\* Layout::tick.  Each intermediate value is computed once and bound by a
\* quantifier over a one-element set.
Tick ==
    \E checks \in BOOLEAN :    \* the build: with overflow checks or without
    /\ ~panicked
    /\ \E st1 \in {[x \in 1..Len(stacked) |-> StackedTick(stacked[x])]} :
       \E self1 \in {[Self EXCEPT
                        !.tap_hold_tracker.timeout = saturating_sub(@, 1)]} :
       \E o1 \in {ObsTick(Obs)} :
          IF waiting # <<>>
          THEN \E w \in {WaitingTimeout(waiting[1])} :
               \E d \in {WaitingTickOn(waiting[1], st1, checks)} :
               \E self2 \in {[self1 EXCEPT !.waiting = <<w>>]} :
               \E r \in {CASE d = "Hold" -> waiting_into_hold(self2)
                           [] d = "Tap" -> waiting_into_tap(self2)
                           [] d = "NoOp" -> drop_waiting(self2)
                           [] d = "Panic" -> Panic(self2)
                           [] d = "None" -> Ret(self2, NoEvent)} :
               \E o2 \in {IF d \in {"None", "Panic"} THEN o1
                          ELSE ObsResolve(o1, w, d, r, self2)} :
                  /\ Commit(r, st1, ObsShown(o2, r.self.states))
                  /\ last' = [op |-> "tick", custom |-> r.custom, applied |-> <<>>,
                              press |-> <<>>,
                              consulted |-> <<ObsConsulted(o1, w, d, st1)>>,
                              overflow |-> FALSE]
          ELSE IF st1 # <<>>
          THEN \E action \in {StackedAction(self1, Head(st1))} :
               \E r \in {unstack(self1, Head(st1))} :
               \E u \in {Unstacked(self1, o1, Head(st1), action, r)} :
                  /\ Commit(u.r, Tail(st1), ObsShown(u.o, u.r.self.states))
                  /\ last' = [op |-> "tick", custom |-> u.r.custom,
                              applied |-> <<Head(st1).event>>, press |-> u.press,
                              consulted |-> <<>>, overflow |-> FALSE]
          ELSE /\ Commit(Ret(self1, NoEvent), st1, ObsShown(o1, self1.states))
               /\ last' = [op |-> "tick", custom |-> NoEvent, applied |-> <<>>,
                           press |-> <<>>, consulted |-> <<>>, overflow |-> FALSE]
    /\ burst' = CASE burst = "first" -> "second"
                  [] burst = "second" -> "over"
                  [] OTHER -> burst
    /\ applied' = applied \o last'.applied
    /\ UNCHANGED <<keys, down, nevents, registered>>
    /\ UNCHANGED BesideLayout

\* The order of the matrix.
RowMajorBefore(a, b) == a[1] < b[1] \/ (a[1] = b[1] /\ a[2] < b[2])

\* Layout::event.  In a burst the events come key after key, in the order
\* of the matrix.
Event(e) ==
    /\ ~panicked
    /\ nevents < EventBudget
    /\ burst # "over"
    /\ e.coord \in keys
    /\ (burst # "no" /\ registered # <<>>)
          => ~RowMajorBefore(e.coord, registered[Len(registered)].coord)
    /\ is_press(e) <=> e.coord \notin down
    /\ nevents' = nevents + 1
    /\ down' = IF is_press(e) THEN down \cup {e.coord} ELSE down \ {e.coord}
    /\ registered' = Append(registered, e)
    /\ UNCHANGED <<keys, burst>>
    /\ UNCHANGED BesideLayout
    /\ \E pb \in {push_back(stacked, Stacked(e))} :
       IF pb.popped = <<>>
       THEN /\ Commit(Ret(Self, NoEvent), pb.ring,
                      [Obs EXCEPT !.presses = ObsRegister(@, e)])
            /\ last' = [op |-> "event", custom |-> NoEvent, applied |-> <<>>,
                        press |-> <<>>, consulted |-> <<>>, overflow |-> FALSE]
       ELSE LET popped == pb.popped[1]
                r1 == waiting_into_hold(Self)
                o1 == IF waiting = <<>> THEN Obs
                      ELSE ObsResolve(Obs, waiting[1], "Hold", r1, Self)
                u == IF r1.panic THEN [r |-> r1, o |-> o1, press |-> <<>>]
                     ELSE Unstacked(r1.self, o1, popped,
                                    StackedAction(r1.self, popped),
                                    unstack(r1.self, popped))
            IN /\ Commit(u.r, pb.ring,
                         ObsOverflow([u.o EXCEPT !.presses = ObsRegister(@, e)]))
               /\ last' = [op |-> "event", custom |-> NoEvent,
                           applied |-> <<popped.event>>, press |-> u.press,
                           consulted |-> IF waiting = <<>> THEN <<>>
                                         ELSE <<ObsConsulted(Obs, waiting[1], "Hold",
                                                             stacked)>>,
                           overflow |-> TRUE]
    /\ applied' = applied \o last'.applied

Next ==
    \/ Tick
    \/ \E c \in keys : Event([kind |-> "Press", coord |-> c])
    \/ \E c \in keys : Event([kind |-> "Release", coord |-> c])

Spec == Init /\ [][Next]_vars


(***************************************************************************)
(* Properties of the hold/tap decision.                                    *)
(***************************************************************************)
\* The waiting states consulted, and the presses applied, by the last call.
Consulted == {last.consulted[x] : x \in 1..Len(last.consulted)}
Pressed == {last.press[x] : x \in 1..Len(last.press)}

\* The Default timeout rule, read on what a consulted waiting state saw.
DefaultRule(x) ==
    IF x.release_stacked
    THEN IF x.remaining + x.release_since >= x.delay THEN "Tap" ELSE "Hold"
    ELSE IF x.remaining = 0 THEN "Hold" ELSE "None"

\* What a custom handler of the boards answers when it is given the presses
\* still queued, in the order the caller registered them.
HandlerAnswer(x) ==
    IF x.config.kind # "Custom" THEN "None"
    ELSE CASE x.config.func = "always_tap" -> "Tap"
           [] x.config.func = "always_hold" -> "Hold"
           [] x.config.func = "always_nop" -> "NoOp"
           [] x.config.func = "left_mod" ->
                 IF x.queued # <<>> /\ x.queued[1][2] <= 5 THEN "Tap" ELSE "None"
           [] x.config.func = "right_mod" ->
                 IF x.queued # <<>> /\ x.queued[1][2] >= 6 THEN "Tap" ELSE "None"
           [] OTHER -> "None"

\* The key code of action is held for coord by the newest state.
HeldLast(action, coord) ==
    /\ action.type = "KeyCode"
    /\ states # <<>>
    /\ states[Len(states)] = NormalKey(action.keycode, coord)

\* C1: under HoldTapConfig::Default with tap_hold_interval = 0 and no ring
\* overflow, for every timeout T, a HoldTap key resolves to its hold action
\* if the number of ticks between event(Press(c)) and event(Release(c)) is
\* greater than T, and to its tap action otherwise.
C1_HoldIffHeldLongerThanTimeout ==
    \A x \in Consulted :
        (x.config = ConfigDefault /\ x.interval = 0 /\ ~last.overflow
         /\ x.how # "None")
        => /\ x.how \in {"Hold", "Tap"}
           /\ x.how = "Hold" <=> x.held > x.timeout

\* C2: for every HoldTapConfig, a waiting state installed with timeout T is
\* resolved no later than the max(T,1)-th tick after it was installed; when
\* that tick is reached with no decision forced by a custom handler and no
\* Release of the waiting key in the ring, the hold action is performed.
C2_ResolvedByTimeout ==
    /\ waiting # <<>> <=> pending # <<>>
    /\ \A x \in 1..Len(pending) : pending[x].waited < Max(pending[x].timeout, 1)
    /\ \A x \in Consulted :
          (~last.overflow /\ x.waited = Max(x.timeout, 1)
           /\ HandlerAnswer(x) = "None" /\ ~x.release_stacked)
          => /\ x.how = "Hold"
             /\ HeldLast(x.hold, x.coord)

C2_Witness ==
    \E x \in Consulted :
        /\ x.waited = MaxTimeout /\ x.timeout = MaxTimeout
        /\ x.config = ConfigCustom("always_none")
        /\ ~x.release_stacked /\ x.how = "Hold"
        /\ \E e \in {x.ring[y] : y \in 1..Len(x.ring)} : e.kind = "Press"

\* C3: with HoldTapConfig::HoldOnOtherKeyPress, on any tick at which a
\* waiting state is pending and the ring contains at least one Press, the
\* waiting state resolves to Hold on that tick, the hold action's state
\* being inserted while that Press is still queued; when the ring contains
\* no Press the Default timeout rule applies.
C3_HoldOnOtherKeyPress ==
    \A x \in Consulted :
        (x.config = ConfigHoldOnOtherKeyPress /\ ~last.overflow)
        => IF \E y \in 1..Len(x.ring) : x.ring[y].kind = "Press"
           THEN /\ x.how = "Hold"
                /\ waiting = <<>>
                /\ HeldLast(x.hold, x.coord)
                /\ [y \in 1..Len(stacked) |-> stacked[y].event] = x.ring
           ELSE x.how = DefaultRule(x)

C3_Witness ==
    \E x \in Consulted :
        /\ x.config = ConfigHoldOnOtherKeyPress
        /\ x.how = "Hold" /\ x.remaining > 0
        /\ \E y \in 1..Len(x.ring) : x.ring[y].kind = "Press"

\* C4, as stated: with HoldTapConfig::PermissiveHold, unless the ring
\* contains a Press of some key followed by the Release of that key before
\* any Release of the waiting key, the Default timeout rule decides.
C4_HoldOnlyWhileStillHeld ==
    \A x \in Consulted :
        (x.config = ConfigPermissiveHold /\ ~last.overflow
         /\ ~ReleasedWhileHeld(x.coord, [y \in 1..Len(x.ring) |-> [event |-> x.ring[y]]]))
        => x.how = DefaultRule(x)

\* C4, amended: with HoldTapConfig::PermissiveHold, a waiting state resolves
\* to Hold on any tick at which the ring contains a Press of some key
\* followed by the Release of that same key, whether or not the waiting
\* key's own Release was registered before; in every other case the Default
\* timeout rule decides.
C4_PermissiveHold ==
    \A x \in Consulted :
        (x.config = ConfigPermissiveHold /\ ~last.overflow)
        => IF \E y \in 1..Len(x.ring) : \E z \in (y + 1)..Len(x.ring) :
                 /\ x.ring[y].kind = "Press"
                 /\ x.ring[z].kind = "Release"
                 /\ x.ring[z].coord = x.ring[y].coord
           THEN x.how = "Hold"
           ELSE x.how = DefaultRule(x)

C4_Witness ==
    \E x \in Consulted :
        /\ x.config = ConfigPermissiveHold
        /\ x.how = "Hold" /\ x.remaining > 0
        /\ x.ring = <<[kind |-> "Press", coord |-> K1],
                      [kind |-> "Release", coord |-> x.coord],
                      [kind |-> "Release", coord |-> K1]>>

\* C5: with HoldTapConfig::Custom(f), f is invoked on every tick while the
\* waiting state is pending, with the ring's events in registration order;
\* if f returns Some(Hold|Tap|NoOp) the waiting state resolves on that tick
\* to exactly that outcome (for NoOp the waiting state is dropped and no
\* state is inserted); if f returns None the Default timeout rule decides.
C5_CustomHandler ==
    \A x \in Consulted :
        (x.config.kind = "Custom" /\ ~last.overflow)
        => /\ x.how = IF HandlerAnswer(x) # "None" THEN HandlerAnswer(x)
                      ELSE DefaultRule(x)
           /\ x.how # "None" => waiting = <<>>
           /\ x.how = "NoOp" =>
                 /\ \A y \in 1..Len(states) : states[y].coord # x.coord
                 /\ last.custom = NoEvent

C5_Witness ==
    \E x \in Consulted :
        /\ x.config = ConfigCustom("left_mod")
        /\ x.how = "Tap" /\ x.remaining > 0 /\ ~x.release_stacked
        /\ Len(x.queued) > 1 /\ x.queued[1] = K1 /\ x.queued[2] = K6


(***************************************************************************)
(* Properties of tap_hold_interval.                                        *)
(***************************************************************************)
\* C6: for a HoldTap key with tap_hold_interval I > 0 whose previous press
\* resolved as tap, when no other key was pressed in between: a next Press
\* applied fewer than I ticks after the previous Press was applied performs
\* the tap at once, without a waiting state, and the tap's key code stays
\* until the key's Release is applied however long the key is held; a
\* next Press applied I or more ticks after installs a waiting state.
C6_TapHoldInterval ==
    /\ \A p \in Pressed :
          (p.type = "HoldTap" /\ p.interval > 0 /\ ~last.overflow
           /\ p.prev.coord = p.coord /\ p.prev.outcome = "Tap")
          => IF p.prev.ticks < p.interval
             THEN ~p.installs /\ waiting = <<>> /\ HeldLast(p.tap, p.coord)
             ELSE p.installs /\ waiting # <<>> /\ waiting[1].coord = p.coord
    /\ (hist.outcome = "immediate" /\ lastApplied[hist.coord] = "press")
       => \E x \in 1..Len(states) :
             states[x] = NormalKey(hist.tap.keycode, hist.coord)

\* C7: if the Press of any different key, whatever its action (NoOp and
\* Trans included), is applied between two presses of a HoldTap key with
\* tap_hold_interval > 0, the second press of the HoldTap key installs a
\* waiting state.
C7_OtherKeyResetsInterval ==
    \A p \in Pressed :
        (p.type = "HoldTap" /\ p.interval > 0 /\ ~last.overflow
         /\ p.prev.coord # p.coord /\ p.prev.before = p.coord)
        => p.installs

(***************************************************************************)
(* Properties of the states.                                               *)
(***************************************************************************)
\* C8, as stated: current_layer() equals the value of the most recently
\* applied Layer action whose key has not yet had its Release applied, or
\* default_layer if there is none.
C8_LastHeldLayerWins ==
    current_layer(states, default_layer)
        = IF heldLayers = <<>> THEN default_layer
          ELSE heldLayers[Len(heldLayers)].value

\* The held Layer actions that found room in the state set.
KeptLayers == SelectSeq(heldLayers, LAMBDA h : h.kept)

\* C8, amended: current_layer() equals the value of the most recently
\* applied Layer action whose key has not yet had its Release applied and
\* which was applied while the state set had fewer than 64 states, or
\* default_layer if there is none; hence it is always default_layer or the
\* value of a held LayerModifier state.
C8_LastKeptLayerWins ==
    /\ current_layer(states, default_layer)
          = IF KeptLayers = <<>> THEN default_layer
            ELSE KeptLayers[Len(KeptLayers)].value
    /\ current_layer(states, default_layer)
          \in {default_layer}
              \cup {states[x].value :
                      x \in {y \in 1..Len(states) : states[y].kind = "LayerModifier"}}

C8_Witness ==
    /\ Len(states) = StatesCap
    /\ \E x \in 1..Len(heldLayers) : ~heldLayers[x].kept /\ heldLayers[x].value = 1
    /\ last.applied = <<[kind |-> "Press", coord |-> K1]>>
    /\ current_layer(states, default_layer) = 0

\* The states before the event that the last call applied.
StatesBeforeApplied ==
    IF Len(stacked) = StackCap /\ waiting # <<>>
    THEN waiting_into_hold(Self).self.states
    ELSE states

\* C9: in every reachable state each NormalKey, LayerModifier and Custom
\* state has a coordinate whose most recently applied event is a Press;
\* applying Release(c) removes every state with coordinate c and no other
\* state, so right after a Release(c) is applied no state references c.
C9_StatesOwnedByPressedKeys ==
    /\ [](\A x \in 1..Len(states) :
            /\ states[x].kind \in {"NormalKey", "LayerModifier", "Custom"}
            /\ lastApplied[states[x].coord] = "press")
    /\ [](\A e \in {last.applied[x] : x \in 1..Len(last.applied)} :
            e.kind = "Release" =>
               \A x \in 1..Len(states) : states[x].coord # e.coord)
    /\ [][\A e \in {last'.applied[x] : x \in 1..Len(last'.applied)} :
            e.kind = "Release" =>
               states' = SelectSeq(StatesBeforeApplied,
                                   LAMBDA s : s.coord # e.coord)]_vars

(***************************************************************************)
(* Liveness: tick() keeps being called.                                    *)
(***************************************************************************)
\* A HoldTap key whose hold action is a HoldTap, beside a plain key; the
\* caller registers the events of both in one burst that the first tick
\* ends.
NestedHoldBoard ==
    [layers |-> << <<Row(HoldTap(MaxTimeout,
                                 HoldTap(MaxTimeout, k("LAlt"), k("Space"),
                                         ConfigDefault, 0),
                                 k("Space"), ConfigDefault, 0),
                         k("Enter"), NoOp)>> >>,
     keys |-> {K0, K1}, burst |-> "second"]

\* Boards that between them change layers, resolve hold/tap every way,
\* fill the state set and overflow the ring, on one key and on two, with a
\* HoldTap nested in a hold action.
LiveBoards ==
    {HoldTapBoard(MaxTimeout, cfg, 0) :
        cfg \in {ConfigDefault, ConfigHoldOnOtherKeyPress, ConfigPermissiveHold,
                 ConfigCustom("always_nop")}}
    \cup {HoldTapBoard(MaxTimeout, ConfigDefault, MaxInterval),
          LayerBoard, FullBoard, BurstBoard, NestedHoldBoard}

FairSpec == InitOn(LiveBoards) /\ [][Next]_vars /\ WF_vars(Tick)

AllReleased == down = {}
Quiet ==
    /\ stacked = <<>>
    /\ waiting = <<>>
    /\ states = <<>>
    /\ keycodes(states) = <<>>

\* C10: if every pressed coordinate is later released, no further events
\* arrive and tick() keeps being called, then eventually the ring is empty,
\* no waiting state is pending, the state set is empty and keycodes()
\* yields nothing, whatever layer changes, hold/tap resolutions or ring
\* overflows happened in between.
C10_EventuallyQuiet ==
    <>[]AllReleased => <>[]Quiet

(***************************************************************************)
(* HoldTap actions nested in a HoldTap.                                    *)
(***************************************************************************)
\* A HoldTap key whose hold and tap actions are themselves HoldTap, the
\* hold of its hold action being a HoldTap again, beside a plain key; b
\* tells whether the caller registers its events in a burst.
NestedBoard(i, ks, b) ==
    [layers |-> << <<Row(HoldTap(MaxTimeout,
                                 HoldTap(MaxTimeout,
                                         HoldTap(MaxTimeout, k("LAlt"), k("Space"),
                                                 ConfigDefault, 0),
                                         k("Space"), ConfigDefault, 0),
                                 HoldTap(MaxTimeout, k("LCtrl"), k("Enter"),
                                         ConfigDefault, 0),
                                 ConfigDefault, i),
                         k("B"), NoOp)>> >>,
     keys |-> ks, burst |-> b]

NestedBoards ==
    {NestedBoard(i, {K0, K1}, "no") : i \in {0, MaxInterval}}
    \cup {NestedBoard(0, {K0}, "first"), NestedHoldBoard}

NestedSpec == InitOn(NestedBoards) /\ [][Next]_vars

\* C11: for any action table in which the hold or tap action of a HoldTap
\* is itself a HoldTap, no sequence of event() and tick() calls makes the
\* layout panic: the assertion at the start of do_action holds every time
\* do_action is entered, including when event() overflows the ring.
C11_NeverPanics == ~panicked


(***************************************************************************)
(* Properties of the ring of stacked events.                               *)
(***************************************************************************)
\* The events of the ring, oldest first.
RingEvents == [x \in 1..Len(stacked) |-> stacked[x].event]

\* A call of event(), and one made while the ring is full.
EventCall == nevents' = nevents + 1
OverflowCall == EventCall /\ Len(stacked) = StackCap

\* The states after the hold action of the waiting state w, a key code, is
\* performed on the states st.
AfterHold(st, w) ==
    IF w.hold.type = "KeyCode" /\ Len(st) < StatesCap
    THEN Append(st, NormalKey(w.hold.keycode, w.coord))
    ELSE st

\* C12: when event(e) is called while the ring holds its 32 events, the
\* oldest event is removed, a pending waiting state is first resolved as
\* hold, the removed event is then applied, and e is appended; no registered
\* event is discarded: the events applied so far followed by the events of
\* the ring are the registered events, each once and in registration order.
C12_OverflowAppliesOldest ==
    /\ [](applied \o RingEvents = registered)
    /\ [][OverflowCall =>
            /\ stacked' = Append(Tail(stacked),
                                 Stacked(registered'[Len(registered')]))
            /\ applied' = Append(applied, Head(stacked).event)
            /\ waiting # <<>> =>
                  /\ \E x \in Consulted' : x.coord = waiting[1].coord /\ x.how = "Hold"
                  /\ is_release(Head(stacked).event) =>
                        /\ waiting' = <<>>
                        /\ states' = SelectSeq(AfterHold(states, waiting[1]),
                                               LAMBDA t : t.coord # Head(stacked).event.coord)
            /\ waiting = <<>> =>
                  /\ is_release(Head(stacked).event) =>
                        states' = SelectSeq(states,
                                            LAMBDA t : t.coord # Head(stacked).event.coord)
                  /\ is_press(Head(stacked).event) =>
                        \/ waiting' # <<>> /\ waiting'[1].coord = Head(stacked).event.coord
                        \/ \E x \in Pressed' : x.coord = Head(stacked).event.coord
         ]_vars

C12_Witness ==
    /\ last.overflow /\ last.consulted # <<>>
    /\ last.applied = <<[kind |-> "Release", coord |-> K0]>>
    /\ Len(stacked) = StackCap /\ Len(applied) = 2
    /\ Len(registered) = StackCap + 2

\* A call of tick().
TickCall == nevents' = nevents

\* C13: the state set, the default layer and the waiting state change only
\* inside tick(), except when event() overflows the ring: an event() on a
\* ring that is not full only appends the event with age 0, keycodes() and
\* current_layer() being unchanged; a tick() applies at most one stacked
\* event, and none when a waiting state was pending at its start: it then
\* only consults the waiting state and the events of the ring stay queued.
C13_OnlyTickChangesStates ==
    [][/\ (EventCall /\ Len(stacked) < StackCap) =>
            /\ states' = states
            /\ default_layer' = default_layer
            /\ waiting' = waiting
            /\ stacked' = Append(stacked,
                                 [event |-> registered'[Len(registered')], since |-> 0])
            /\ keycodes(states') = keycodes(states)
            /\ current_layer(states', default_layer')
                  = current_layer(states, default_layer)
            /\ applied' = applied
       /\ TickCall =>
            /\ Len(applied') <= Len(applied) + 1
            /\ Len(applied') = Len(applied) + 1 =>
                  /\ applied' = Append(applied, Head(stacked).event)
                  /\ RingEvents' = Tail(RingEvents)
            /\ Len(applied') = Len(applied) => RingEvents' = RingEvents
            /\ waiting # <<>> =>
                  /\ applied' = applied
                  /\ RingEvents' = RingEvents
                  /\ \E x \in Consulted' : x.coord = waiting[1].coord
                  /\ Pressed' = {}
      ]_vars

C13_Witness ==
    /\ last.op = "tick"
    /\ waiting # <<>> /\ states # <<>>
    /\ \E x \in Consulted : x.how = "None" /\ Len(x.ring) >= 2
    /\ Len(stacked) >= 2


(***************************************************************************)
(* press_as_action and set_default_layer on action tables of several       *)
(* shapes: one row or two, Trans on every layer, no layer at all.          *)
(***************************************************************************)
MaxLayerArg == 4

Coords == {K0, K1, K6, <<1, 0>>, <<1, 1>>, <<2, 0>>}

TwoRowLayers ==
    << << <<k("A"), Trans>>, <<Trans, k("B")>> >>,
       << <<Trans, Trans>>, <<Trans, k("C")>> >>,
       << <<l(1), k("D")>>, <<k("E"), Trans>> >> >>

TransLayers ==
    << << <<Trans, k("A")>> >>,
       << <<Trans, Trans>> >>,
       << <<k("B"), Trans>> >> >>

TableBoard(t) == [layers |-> t, keys |-> {K0}, burst |-> "no"]

TableBoards ==
    {TableBoard(t) : t \in {LayerBoard.layers, TwoRowLayers, TransLayers, <<>>}}

\* The number of times press_as_action calls itself.
RECURSIVE FallThroughs(_, _, _, _)
FallThroughs(ls, dl, coord, layer) ==
    LET action == LayersGet(ls, layer, coord)
    IN IF action # <<>> /\ action[1].type = "Trans" /\ layer # dl
       THEN 1 + FallThroughs(ls, dl, coord, dl)
       ELSE 0

\* A call of press_as_action(coord, layer).
PressAsAction(coord, layer) ==
    /\ last' = [op |-> "press_as_action", custom |-> NoEvent, applied |-> <<>>,
                press |-> <<>>, consulted |-> <<>>, overflow |-> FALSE,
                args |-> <<coord, layer>>,
                result |-> press_as_action(layers, default_layer, coord, layer),
                calls |-> FallThroughs(layers, default_layer, coord, layer)]
    /\ UNCHANGED <<layers, default_layer, states, waiting, stacked,
                   tap_hold_tracker, panicked, keys, burst, down, nevents,
                   presses, pending, hist, heldLayers, lastApplied, registered,
                   applied>>
    /\ UNCHANGED BesideLayout

\* A call of set_default_layer(value).
SetDefaultLayer(value) ==
    /\ ~panicked
    /\ default_layer' = set_default_layer(Self, value).default_layer
    /\ last' = [op |-> "set_default_layer", custom |-> NoEvent, applied |-> <<>>,
                press |-> <<>>, consulted |-> <<>>, overflow |-> FALSE,
                args |-> <<value>>]
    /\ UNCHANGED <<layers, states, waiting, stacked, tap_hold_tracker, panicked,
                   keys, burst, down, nevents, presses, pending, hist, heldLayers,
                   lastApplied, registered, applied>>
    /\ UNCHANGED BesideLayout

TableNext ==
    \/ \E n \in 0..MaxLayerArg : SetDefaultLayer(n)
    \/ \E c \in Coords : \E n \in 0..MaxLayerArg : PressAsAction(c, n)

TableSpec == InitOn(TableBoards) /\ [][TableNext]_vars

\* The entry of the table ls at layer and coord, <<>> when the layer, the
\* row or the column is not in the table.
Entry(ls, layer, coord) ==
    IF /\ layer + 1 \in DOMAIN ls
       /\ coord[1] + 1 \in DOMAIN ls[layer + 1]
       /\ coord[2] + 1 \in DOMAIN ls[layer + 1][coord[1] + 1]
    THEN <<ls[layer + 1][coord[1] + 1][coord[2] + 1]>>
    ELSE <<>>

\* C14: press_as_action(coord, layer) is NoOp when the layer or the
\* coordinate is outside the table; for a Trans entry on a layer other than
\* the default layer it is the default layer's action at coord, or NoOp if
\* that one is Trans; for a Trans entry on the default layer it is NoOp;
\* otherwise it is the entry.  It calls itself at most once.
C14_PressAsAction ==
    last.op = "press_as_action" =>
        LET coord == last.args[1]
            layer == last.args[2]
            e == Entry(layers, layer, coord)
            d == Entry(layers, default_layer, coord)
        IN /\ last.result =
                 IF e = <<>> THEN NoOp
                 ELSE IF e[1] = Trans
                      THEN IF layer # default_layer
                           THEN IF d = <<>> \/ d[1] = Trans THEN NoOp ELSE d[1]
                           ELSE NoOp
                      ELSE e[1]
           /\ last.calls <= 1
           /\ last.result # Trans

C14_Witness ==
    /\ last.op = "press_as_action"
    /\ layers = TransLayers /\ default_layer = 1
    /\ last.args = <<K1, 2>>
    /\ last.result = NoOp /\ last.calls = 1


(***************************************************************************)
(* MultipleKeyCodes and MultipleActions.                                   *)
(***************************************************************************)
\* test::multiple_actions, with a MultipleKeyCodes key and a second layer.
MultiBoard ==
    [layers |-> << <<Row(MultipleActions(<<l(1), k("LShift")>>),
                         MultipleKeyCodes(<<"LCtrl", "C">>), k("F"))>>,
                   <<Row(Trans,
                         MultipleActions(<<k("E"), CustomAction(7), NoOp>>),
                         k("E"))>> >>,
     keys |-> {K0, K1, K6}, burst |-> "no"]

\* A MultipleActions key one of whose actions is a HoldTap.
MultiHoldBoard(v) ==
    [layers |-> << <<Row(MultipleActions(v), k("F"), NoOp)>>,
                   <<Row(Trans, k("E"), NoOp)>> >>,
     keys |-> {K0, K1}, burst |-> "no"]

MultiBoards ==
    LET ht == HoldTap(MaxTimeout, l(1), k("Space"), ConfigDefault, 0)
    IN {MultiBoard, MultiHoldBoard(<<ht, k("LShift")>>),
        MultiHoldBoard(<<k("LShift"), ht>>)}

MultiSpec == InitOn(MultiBoards) /\ [][Next]_vars

\* The states a press of coordinate c bound to action a may create: one
\* sequence for each way its HoldTap members can resolve.
RECURSIVE StateSets(_, _), MemberSets(_, _, _)
StateSets(a, c) ==
    CASE a.type = "KeyCode" -> {<<NormalKey(a.keycode, c)>>}
      [] a.type = "MultipleKeyCodes" ->
            {[x \in 1..Len(a.keycodes) |-> NormalKey(a.keycodes[x], c)]}
      [] a.type = "Layer" -> {<<LayerModifier(a.value, c)>>}
      [] a.type = "Custom" -> {<<CustomState(a.value, c)>>}
      [] a.type = "MultipleActions" -> MemberSets(a.actions, 1, c)
      [] a.type = "HoldTap" -> StateSets(a.hold, c) \cup StateSets(a.tap, c)
      [] OTHER -> {<<>>}
MemberSets(v, i, c) ==
    IF i > Len(v) THEN {<<>>}
    ELSE {x \o y : x \in StateSets(v[i], c), y \in MemberSets(v, i + 1, c)}

IsMultiple(a) == a.type \in {"MultipleKeyCodes", "MultipleActions"}

\* The states of coordinate c, oldest first.
Group(c) == SelectSeq(states, LAMBDA t : t.coord = c)

\* C15: all the states created by one Press through MultipleKeyCodes or
\* MultipleActions are inserted during the tick that applies the Press and
\* carry the key's coordinate; the tick that applies the Release of the key
\* removes all of them; so at any time either all or none of the states of
\* such a key are present: a layer shift and a modifier bound to one key
\* appear and disappear together.
C15_MultipleTogether ==
    /\ [](~panicked)
    /\ [](\A c \in keys :
             \/ Group(c) = <<>>
             \/ \E ly \in 0..(Len(layers) - 1) :
                   /\ IsMultiple(Entry(layers, ly, c)[1])
                   /\ Group(c) \in StateSets(Entry(layers, ly, c)[1], c)
             \/ \A ly \in 0..(Len(layers) - 1) : ~IsMultiple(Entry(layers, ly, c)[1]))
    /\ [][(TickCall /\ applied' # applied) =>
            LET e == Head(stacked).event
                action == StackedAction(Self, Head(stacked))
            IN /\ (is_press(e) /\ IsMultiple(action)) =>
                     \E g \in StateSets(action, e.coord) : states' = states \o g
               /\ is_release(e) => \A x \in 1..Len(states') : states'[x].coord # e.coord
         ]_vars


(***************************************************************************)
(* Custom actions.                                                         *)
(***************************************************************************)
\* test::custom, beside a key that performs two custom actions and a key
\* code, and a plain key.
CustomBoard ==
    [layers |-> << <<Row(CustomAction(42),
                         MultipleActions(<<CustomAction(1), k("A"), CustomAction(2)>>),
                         k("B"))>> >>,
     keys |-> {K0, K1, K6}, burst |-> "no"]

CustomBoards == {CustomBoard, LayerBoard, FullBoard}

CustomSpec == InitOn(CustomBoards) /\ [][Next]_vars

\* The values of the Custom actions performed by action a, in order.
RECURSIVE CustomsOf(_), CustomsFrom(_, _)
CustomsOf(a) ==
    CASE a.type = "Custom" -> <<a.value>>
      [] a.type = "MultipleActions" -> CustomsFrom(a.actions, 1)
      [] OTHER -> <<>>
CustomsFrom(v, i) ==
    IF i > Len(v) THEN <<>> ELSE CustomsOf(v[i]) \o CustomsFrom(v, i + 1)

\* NoEvent < Press < Release
Strength(e) == CASE e.kind = "NoEvent" -> 0 [] e.kind = "Press" -> 1 [] OTHER -> 2

\* The custom events that arise when the front of the ring is applied;
\* full tells whether a Press finds the state set full.
Arising(full) ==
    LET e == Head(stacked).event
        v == CustomsOf(StackedAction(Self, Head(stacked)))
    IN IF is_press(e)
       THEN IF full THEN {} ELSE {CustomPress(v[x]) : x \in 1..Len(v)}
       ELSE {CustomRelease(states[x].value) :
               x \in {y \in 1..Len(states) :
                        states[y].kind = "Custom" /\ states[y].coord = e.coord}}

\* What a tick returns, given the custom events that arise in it.
Returned(arising) ==
    /\ arising = {} => last'.custom = NoEvent
    /\ arising # {} =>
          /\ last'.custom \in arising
          /\ \A x \in arising : Strength(x) <= Strength(last'.custom)

CustomTick(full) ==
    TickCall =>
        IF applied' = applied THEN last'.custom = NoEvent
        ELSE /\ Returned(Arising(full))
             /\ (/\ is_press(Head(stacked).event)
                 /\ StackedAction(Self, Head(stacked)).type = "Custom")
                   => keycodes(states') = keycodes(states)
             /\ (is_release(Head(stacked).event) /\ Arising(full) # {})
                   => \/ keycodes(states') = keycodes(states)
                      \/ \E y \in 1..Len(states) :
                            /\ states[y].kind = "NormalKey"
                            /\ states[y].coord = Head(stacked).event.coord

\* C16, as stated: when the ring does not overflow, the tick that applies
\* the Press of a key bound to Custom(v) returns Press(v), the tick that
\* applies its Release returns Release(v), every other tick returns NoEvent,
\* keycodes() is unaffected, and of several custom events arising in one
\* tick the strongest in the order NoEvent < Press < Release is returned.
C16_CustomEvents == [][CustomTick(FALSE)]_vars

\* C16, amended: the same provided the state set holds fewer than 64 states
\* when the Press is applied; when it is full the Custom action is dropped
\* and the tick that applies the Press returns NoEvent, as does the tick
\* that applies the Release, no Custom state having been inserted.
C16_CustomEventsWithRoom == [][CustomTick(Len(states) = StatesCap)]_vars

C16_Witness ==
    /\ last.op = "tick" /\ last.custom = CustomRelease(1)
    /\ last.applied = <<[kind |-> "Release", coord |-> K1]>>
    /\ \E x \in 1..Len(states) : states[x] = CustomState(42, K0)


(***************************************************************************)
(* The default layer.                                                      *)
(***************************************************************************)
\* The layer table of the tests and a table without any layer, the caller
\* also calling set_default_layer.
DefaultBoards == {[LayerBoard EXCEPT !.keys = {K0, K6}], TableBoard(<<>>)}

DefaultNext ==
    \/ Next
    \/ \E n \in 0..MaxLayerArg : SetDefaultLayer(n)

DefaultSpec == InitOn(DefaultBoards) /\ [][DefaultNext]_vars

\* The default layer after DefaultLayer(n) or set_default_layer(n).
DefaultAfter(n) == IF n < Len(layers) THEN n ELSE default_layer

DefaultLayerSteps ==
    /\ (last'.op = "set_default_layer" /\ nevents' = nevents /\ last' # last)
          => default_layer' = DefaultAfter(last'.args[1])
    /\ (last'.op = "tick" /\ applied' # applied) =>
          LET e == Head(stacked).event
              action == StackedAction(Self, Head(stacked))
          IN /\ (is_press(e) /\ action.type = "DefaultLayer")
                    => default_layer' = DefaultAfter(action.value)
             /\ is_release(e) => default_layer' = default_layer
    /\ (last'.op = "tick" /\ applied' = applied) => default_layer' = default_layer
    /\ last'.op = "event" => default_layer' = default_layer

\* C17, as stated: DefaultLayer(n) and set_default_layer(n) set default_layer
\* to n when n < L and leave it unchanged when n >= L; default_layer is
\* always a valid layer index; the release of the key that changed it does
\* not restore it.
C17_DefaultLayerValid ==
    /\ [](default_layer < Len(layers))
    /\ [][DefaultLayerSteps]_vars

\* C17, amended: the same, default_layer being a valid layer index whenever
\* the table has at least one layer; Layout::new sets it to 0 even when the
\* table has none.
C17_DefaultLayerValidIfAnyLayer ==
    /\ [](Len(layers) > 0 => default_layer < Len(layers))
    /\ [][DefaultLayerSteps]_vars

C17_Witness ==
    /\ layers = LayerBoard.layers
    /\ default_layer = 1
    /\ last.op = "tick" /\ last.applied = <<[kind |-> "Release", coord |-> K6]>>
    /\ hist.coord = K6 /\ hist.type = "DefaultLayer"
    /\ states = <<>>


(***************************************************************************)
(* The capacity of the state set.                                          *)
(***************************************************************************)
\* A key that inserts n states at once, beside two keys bound to a1 and a6.
FillBoard(n, a1, a6) ==
    [layers |-> << <<Row(MultipleKeyCodes([x \in 1..n |-> "A"]), a1, a6)>>,
                   <<Row(Trans, Trans, k("D"))>> >>,
     keys |-> {K0, K1, K6}, burst |-> "no"]

FillBoards ==
    {FillBoard(n, k("B"), MultipleKeyCodes(<<"B", "C">>)) : n \in {StatesCap - 1, StatesCap}}
    \cup {FillBoard(n, l(1), CustomAction(42)) : n \in {StatesCap - 1, StatesCap}}

FillSpec == InitOn(FillBoards) /\ [][Next]_vars

Inserting(a) == a.type \in {"KeyCode", "MultipleKeyCodes", "Layer", "Custom"}

\* C18: when the state set holds 64 states, a KeyCode, MultipleKeyCodes,
\* Layer or Custom action is dropped in silence: nothing panics, the states
\* are unchanged, a dropped Custom action gives no CustomEvent::Press, and
\* the state set never holds more than 64 states.
C18_FullStateSet ==
    /\ [](~panicked /\ Len(states) <= StatesCap)
    /\ [][(/\ applied' # applied
           /\ is_press(Head(stacked).event)
           /\ Len(states) = StatesCap
           /\ waiting = <<>>
           /\ Inserting(StackedAction(Self, Head(stacked))))
          => /\ states' = states
             /\ last'.custom = NoEvent
             /\ keycodes(states') = keycodes(states)
             /\ current_layer(states', default_layer')
                   = current_layer(states, default_layer)
         ]_vars

C18_Witness ==
    /\ last.op = "tick"
    /\ last.applied = <<[kind |-> "Press", coord |-> K6]>>
    /\ hist.type = "Custom" /\ last.custom = NoEvent
    /\ Len(states) = StatesCap
    /\ lastApplied[K1] = "press"


(***************************************************************************)
(* The debouncer alone.                                                    *)
(***************************************************************************)
MaxBounce == 3
RunCap == MaxBounce + 1

\* The values read from the switches.
Values == {0, 1, 2}

DebounceInit ==
    /\ New({TableBoard(<<>>)})
    /\ ChordingIdle
    /\ ReportIdle
    /\ KeyboardIdle
    /\ RticIdle
    /\ ScanIdle
    /\ \E cur \in Values : \E new_ \in Values : \E n \in 0..MaxBounce :
          /\ debouncer = Debouncer(cur, new_, n)
          /\ updates = NoUpdates(cur)

\* A call of update(v): the caller counts how many calls in a row passed
\* this same value, different from the current state.
Update(v) ==
    /\ ~debouncer.panicked
    /\ \E r \in update(debouncer, v) :
          /\ debouncer' = r.self
          /\ updates' =
                LET run == IF v = get(debouncer) THEN 0
                           ELSE IF v = updates.value /\ updates.run > 0
                                THEN Min(updates.run + 1, RunCap)
                                ELSE 1
                IN [updates EXCEPT !.value = v, !.run = run,
                                   !.longest = Max(@, run),
                                   !.changed = @ \/ r.ret,
                                   !.ret = r.ret]
    /\ UNCHANGED BesideDebouncer

DebounceNext == \E v \in Values : Update(v)

DebounceSpec == DebounceInit /\ [][DebounceNext]_vars

\* C20: as long as no value different from the current state has been
\* passed to update() in nb_bounce or more consecutive calls, every update()
\* has returned false and get() equals the initial current state.
C20_NoChangeWithoutStableRun ==
    updates.longest < debouncer.nb_bounce
    => /\ ~updates.changed
       /\ ~updates.ret
       /\ get(debouncer) = updates.initial
       /\ ~debouncer.panicked

C20_Witness ==
    /\ debouncer.nb_bounce = MaxBounce
    /\ updates.longest = MaxBounce - 1 /\ updates.run = 1
    /\ debouncer.since = 1 /\ debouncer.new # updates.initial
    /\ get(debouncer) = updates.initial /\ ~updates.changed


\* C21: update() returns true, and get() becomes the new state, exactly on
\* the nb_bounce-th consecutive call that passes the same value different
\* from the current state; a call passing the current state, or another
\* candidate, restarts the count.
C21_ValidatedOnNthCall ==
    /\ updates.ret <=> (updates.run > 0 /\ updates.run = debouncer.nb_bounce)
    /\ updates.ret => get(debouncer) = updates.value



(***************************************************************************)
(* The debouncer on a matrix of switches.                                  *)
(***************************************************************************)
MatrixBounce == 1

\* The 2x2 matrices of switches.
Matrices == [{1, 2} -> [{1, 2} -> BOOLEAN]]

MatrixInit ==
    /\ New({TableBoard(<<>>)})
    /\ ChordingIdle
    /\ ReportIdle
    /\ KeyboardIdle
    /\ RticIdle
    /\ ScanIdle
    /\ \E cur \in Matrices : \E n \in 0..MatrixBounce :
          /\ debouncer = Debouncer(cur, cur, n)
          /\ updates = NoUpdates(cur)

\* A call of events(v), iterated to its end.
Events(v) ==
    /\ ~debouncer.panicked
    /\ \E r \in events(debouncer, v) :
          /\ debouncer' = r.self
          /\ updates' = [updates EXCEPT !.value = v, !.ret = r.ret,
                                        !.changed = @ \/ r.ret,
                                        !.before = get(debouncer),
                                        !.events = r.events]
    /\ UNCHANGED BesideDebouncer

MatrixNext == \E v \in Matrices : Events(v)

MatrixSpec == MatrixInit /\ [][MatrixNext]_vars

\* The cells of a 2x2 matrix and the event a cell gives between two states.
Cells == {<<r, c>> : r \in {1, 2}, c \in {1, 2}}
CellEvent(old, new_, cell) ==
    [kind |-> IF new_[cell[1]][cell[2]] THEN "Press" ELSE "Release",
     coord |-> <<cell[1] - 1, cell[2] - 1>>]
Differing(old, new_) ==
    {cell \in Cells : old[cell[1]][cell[2]] # new_[cell[1]][cell[2]]}
RowMajor(evs) ==
    \A x \in 1..Len(evs) : \A y \in 1..Len(evs) :
       x < y => \/ evs[x].coord[1] < evs[y].coord[1]
                \/ /\ evs[x].coord[1] = evs[y].coord[1]
                   /\ evs[x].coord[2] < evs[y].coord[2]

\* C22: events(new) yields nothing when update(new) returns false; when the
\* stable state changes it yields exactly one event per cell that differs
\* between the previous and the new stable state, Press(r, c) for false to
\* true and Release(r, c) for true to false, in row-major order, and nothing
\* for the other cells.
C22_EventsAreTheDifference ==
    /\ ~updates.ret => updates.events = <<>> /\ get(debouncer) = updates.before
    /\ updates.ret =>
         /\ {updates.events[x] : x \in 1..Len(updates.events)}
               = {CellEvent(updates.before, get(debouncer), cell) :
                    cell \in Differing(updates.before, get(debouncer))}
         /\ RowMajor(updates.events)
         /\ Differing(updates.before, get(debouncer)) # {}

C22_Witness ==
    /\ updates.ret
    /\ Len(updates.events) = 3
    /\ \E x \in 1..3 : is_press(updates.events[x])
    /\ \E x \in 1..3 : is_release(updates.events[x])



(***************************************************************************)
(* The chording alone.                                                     *)
(***************************************************************************)
\* The chord of the unit tests, which is CHORD0 of the usage example, and
\* CHORD1 of that example: the result of each is a key of the layout, that
\* of CHORD1 a key of CHORD0.  Chords whose result is a virtual position:
\* two of two keys, one of three keys sharing two of them, one of five keys.
CHORD == ChordDef(<<0, 2>>, <<(<<0, 0>>), <<0, 1>>>>)
CHORD1 == ChordDef(<<0, 0>>, <<(<<0, 1>>), <<0, 2>>>>)
PairChord == ChordDef(<<3, 0>>, <<(<<0, 0>>), <<0, 1>>>>)
OtherPairChord == ChordDef(<<3, 1>>, <<(<<0, 3>>), <<0, 4>>>>)
TripleChord == ChordDef(<<3, 2>>, <<(<<0, 0>>), <<0, 1>>, <<0, 3>>>>)
FiveChord ==
    ChordDef(<<3, 3>>, <<(<<0, 0>>), <<0, 1>>, <<0, 3>>, <<0, 4>>, <<0, 5>>>>)

\* The switches pressed beside a chording, and whether the events of a
\* tick come in the order of the matrix or in any order.
ChordBoard(defs, ks, sorted) == [defs |-> defs, keys |-> ks, sorted |-> sorted]

ChordBoards ==
    {ChordBoard(<<CHORD>>, {<<0, 0>>, <<0, 1>>, <<0, 3>>}, FALSE),
     \* the usage example: the keys A, B and C of a row, two chords on them
     ChordBoard(<<CHORD, CHORD1>>, {<<0, 0>>, <<0, 1>>, <<0, 2>>}, TRUE),
     \* the chord of the unit tests beside the key that its result stands for
     ChordBoard(<<CHORD>>, {<<0, 0>>, <<0, 1>>, <<0, 2>>}, FALSE),
     ChordBoard(<<PairChord, OtherPairChord>>, {<<0, 0>>, <<0, 1>>, <<0, 3>>, <<0, 4>>}, TRUE),
     ChordBoard(<<PairChord, TripleChord>>, {<<0, 0>>, <<0, 1>>, <<0, 3>>}, FALSE),
     ChordBoard(<<CHORD>>,
                {<<0, 0>>, <<0, 1>>, <<0, 3>>, <<0, 4>>, <<0, 5>>}, TRUE),
     ChordBoard(<<FiveChord>>,
                {<<0, 0>>, <<0, 1>>, <<0, 3>>, <<0, 4>>, <<0, 5>>}, TRUE),
     \* a chord of nine keys, and seventeen chords: Chording::new panics
     ChordBoard(<<PairChord, ChordDef(<<3, 4>>, [x \in 1..(ChordCap + 1) |-> <<0, x - 1>>])>>,
                {<<0, 0>>, <<0, 1>>}, TRUE),
     ChordBoard([x \in 1..(ChordsCap + 1) |-> ChordDef(<<3, x>>, <<(<<0, x - 1>>), <<0, x>>>>)],
                {<<0, 0>>, <<0, 1>>}, TRUE)}

ChordingInitOn(boards) ==
    /\ New({TableBoard(<<>>)})
    /\ DebouncerIdle
    /\ ReportIdle
    /\ KeyboardIdle
    /\ RticIdle
    /\ ScanIdle
    /\ \E b \in boards :
          /\ chording = Chording(b.defs)
          /\ chorded = [NoTicks EXCEPT !.keys = b.keys, !.sorted = b.sorted]

\* The sequences of distinct switches, in matrix order if sorted.
RECURSIVE Switches(_, _)
Switches(ks, sorted) ==
    {<<>>} \cup
    UNION {{<<key>> \o rest :
              rest \in Switches({o \in ks \ {key} :
                                   sorted => RowMajorBefore(key, o)}, sorted)} :
             key \in ks}

\* The events of a tick: one per switch that changed, a press if it was up.
Batch(sw, held) ==
    [x \in 1..Len(sw) |->
       [kind |-> IF sw[x] \in held THEN "Release" ELSE "Press", coord |-> sw[x]]]

\* The positions whose last event handed on is a press, after the vector
\* out is handed on.
StillPressed(open, out) ==
    {c \in open \cup {out[x].coord : x \in 1..Len(out)} :
       LET idx == {x \in 1..Len(out) : out[x].coord = c}
       IN IF idx = {} THEN c \in open
          ELSE is_press(out[CHOOSE x \in idx : \A y \in idx : y <= x])}

\* A call of Chording::tick(vec).
ChordingTick(sw) ==
    /\ ~chording.panicked
    /\ Len(sw) > 0
    /\ \E r \in {chording_tick(chording, Batch(sw, chorded.down))} :
          /\ chording' = r.self
          /\ chorded' =
                [chorded EXCEPT
                   !.downBefore = chorded.down,
                   !.down = (@ \ {sw[x] : x \in 1..Len(sw)})
                            \cup {sw[x] : x \in {y \in 1..Len(sw) : sw[y] \notin @}},
                   !.input = Batch(sw, chorded.down),
                   !.output = r.out,
                   !.before = chording.chords,
                   !.open = StillPressed(@, r.out)]
    /\ UNCHANGED BesideChording

ChordingNext == \E sw \in Switches(chorded.keys, chorded.sorted) : ChordingTick(sw)

ChordingSpec == ChordingInitOn(ChordBoards) /\ [][ChordingNext]_vars

\* The boards on which no result is the position of a switch: there an
\* event at a result position comes from its chord, and from nowhere else.
VirtualBoards ==
    {b \in ChordBoards :
       \A x \in 1..Len(b.defs) : b.defs[x].result \notin b.keys}

VirtualSpec == ChordingInitOn(VirtualBoards) /\ [][ChordingNext]_vars

Has(vec, e) == \E x \in 1..Len(vec) : vec[x] = e
Count(vec, e) == Cardinality({x \in 1..Len(vec) : vec[x] = e})
ChordKeys(c) == {c.def.keys[x] : x \in 1..Len(c.def.keys)}
PressOf(coord) == [kind |-> "Press", coord |-> coord]
ReleaseOf(coord) == [kind |-> "Release", coord |-> coord]

\* The chords whose keys are all pressed by the last tick while they were
\* not in progress.
PressedTogether ==
    {x \in 1..Len(chorded.before) :
       /\ ~chorded.before[x].in_progress
       /\ \A key \in ChordKeys(chorded.before[x]) : Has(chorded.input, PressOf(key))}

\* C23: when the presses of all the keys of a chord that is not in progress
\* arrive in one call of tick, the vector returned holds exactly one press
\* of the chord's result and no press of one of its keys.
C23_ChordPressedTogetherFires ==
    \A x \in PressedTogether :
       /\ ~chording.panicked
       /\ Count(chorded.output, PressOf(chorded.before[x].def.result)) = 1
       /\ \A key \in ChordKeys(chorded.before[x]) :
             ~Has(chorded.output, PressOf(key))


\* The events of a vector on switches that are the key of no chord.
Unchorded(vec) ==
    SelectSeq(vec, LAMBDA e :
       /\ e.coord \in chorded.keys
       /\ \A x \in 1..Len(chorded.before) :
             e.coord \notin ChordKeys(chorded.before[x]))

\* No chord has seen one of its keys pressed.
Idle(chords) ==
    \A x \in 1..Len(chords) :
       ~chords[x].in_progress /\ None(chords[x].keys_pressed)

\* C24: tick returns the events that no chord consumes unchanged and in
\* their order, for every vector of up to 8 events: the events on switches
\* that are the key of no chord pass through, and so does a single press or
\* release of one key of a chord of several keys.
C24_OthersPassThrough ==
    /\ chorded.input # <<>> => ~chording.panicked    \* no call of tick panics
    /\ Unchorded(chorded.output) = Unchorded(chorded.input)
    /\ (Len(chorded.input) = 1 /\ Idle(chorded.before))
          => chorded.output = chorded.input


\* C25: a chord fires only when the presses of all its keys arrive in one
\* call of tick; presses that arrive in different calls never trigger it.
C25_FiresOnlyWithinOneTick ==
    \A x \in 1..Len(chorded.before) :
       Has(chorded.output, PressOf(chorded.before[x].def.result))
       => \A key \in ChordKeys(chorded.before[x]) :
             Has(chorded.input, PressOf(key))

\* C26: the release of a chord's result is emitted once, in the call of
\* tick in which the last of its keys is released: only when every key of
\* the chord is physically released.
C26_ReleasedWhenAllKeysUp ==
    \A x \in 1..Len(chorded.before) :
       Has(chorded.output, ReleaseOf(chorded.before[x].def.result))
       => /\ Count(chorded.output, ReleaseOf(chorded.before[x].def.result)) = 1
          /\ ChordKeys(chorded.before[x]) \cap chorded.down = {}



(***************************************************************************)
(* The keyboard report alone.                                              *)
(***************************************************************************)
MaxPressed == 7

\* The key codes pressed.
Codes == {No, ErrorRollOver, PostFail, A, B, LCtrl, RGui}

ReportInit ==
    /\ New({TableBoard(<<>>)})
    /\ DebouncerIdle
    /\ ChordingIdle
    /\ ReportIdle
    /\ KeyboardIdle
    /\ RticIdle
    /\ ScanIdle

\* A call of pressed(kc): the caller keeps the codes it pressed, the
\* modifiers apart.
PressedCall(kc) ==
    /\ (kc # No /\ ~is_modifier(kc)) => Len(reported.slots) < MaxPressed
    /\ report' = pressed(report, kc)
    /\ reported' = IF kc = No THEN [reported EXCEPT !.no = TRUE]
                   ELSE IF is_modifier(kc) THEN [reported EXCEPT !.mods = @ \cup {kc}]
                   ELSE [reported EXCEPT !.slots = Append(@, kc)]
    /\ UNCHANGED BesideReport

ReportNext == \E kc \in Codes : PressedCall(kc)

ReportSpec == ReportInit /\ [][ReportNext]_vars

\* The sum of the bits of a set of modifiers: their OR, the bits differing.
RECURSIVE ModifierBits(_)
ModifierBits(ms) ==
    IF ms = {} THEN 0
    ELSE LET kc == CHOOSE m \in ms : TRUE
         IN 2 ^ (kc - LCtrl) + ModifierBits(ms \ {kc})

Slots(self) == SubSeq(self, FirstSlot, ReportLen)
NbSlots == ReportLen - FirstSlot + 1
Padded(codes) == codes \o [x \in 1..(NbSlots - Len(codes)) |-> 0]
Six(kc) == [x \in 1..NbSlots |-> kc]
IsError(kc) == kc \in {ErrorRollOver, PostFail, ErrorUndefined}

ModifierByte ==
    /\ report[1] = ModifierBits(reported.mods)
    /\ report[2] = 0
    /\ Len(report) = ReportLen

\* C27: after any sequence of pressed(kc) on a default report, byte 0 is
\* the OR of the bits of the pressed modifiers, byte 1 is 0, and bytes 2..8
\* hold the pressed codes that are not modifiers in insertion order followed
\* by zeros when there are at most six of them, six ErrorRollOver when there
\* are more; modifiers take no slot and No is ignored.
C27_ReportLayout ==
    /\ ModifierByte
    /\ Slots(report) = IF Len(reported.slots) <= NbSlots
                       THEN Padded(reported.slots)
                       ELSE Six(ErrorRollOver)

\* C27 as amended: the codes ErrorRollOver, PostFail and ErrorUndefined are
\* not stored as a slot.  Once one of them has been pressed the six slots
\* hold the last pressed code if it is one of them and ErrorRollOver if not.
C27_ReportLayoutWithErrors ==
    /\ ModifierByte
    /\ Slots(report) =
          IF \E x \in 1..Len(reported.slots) : IsError(reported.slots[x])
          THEN IF IsError(reported.slots[Len(reported.slots)])
               THEN Six(reported.slots[Len(reported.slots)])
               ELSE Six(ErrorRollOver)
          ELSE IF Len(reported.slots) <= NbSlots
          THEN Padded(reported.slots)
          ELSE Six(ErrorRollOver)

C27_Witness ==
    /\ Len(reported.slots) = NbSlots + 1
    /\ \A x \in 1..Len(reported.slots) : ~IsError(reported.slots[x])
    /\ reported.mods = {LCtrl, RGui}
    /\ reported.no
    /\ report = <<129, 0>> \o Six(ErrorRollOver)



(***************************************************************************)
(* The keyboard HID device alone.                                          *)
(***************************************************************************)
\* The reports set: those of at most two key codes among A, B and LCtrl.
Reports ==
    {KbHidReport} \cup {pressed(KbHidReport, kc) : kc \in {A, B, LCtrl}}
    \cup {pressed(pressed(KbHidReport, kc), o) : kc \in {A, B}, o \in {B, LCtrl}}

ReportTypes == {"Input", "Output", "Feature"}
ReportIds == {0, 1}

\* The data of a set_report: nothing, one byte, two bytes.
LedBytes == {0, 1, 2, 4, 8, 16, 18, 31, 32, 255}
ReportData == {<<>>, <<3, 0>>} \cup {<<d>> : d \in LedBytes}

KeyboardInit ==
    /\ New({TableBoard(<<>>)})
    /\ DebouncerIdle
    /\ ChordingIdle
    /\ ReportIdle
    /\ KeyboardIdle
    /\ RticIdle
    /\ ScanIdle

\* The answers of HidClass::write that send_report tells apart: Ok(n)
\* with n > 0, Ok(0) and Err(_).
WriteAnswers == {"Ok", "Ok(0)", "Err"}

\* send_report, once the report is collected, up to the end of its first
\* lock: set_keyboard_report; the report goes on to the loop of writes if
\* it is modified.
SendReport(r) ==
    /\ host.sending = <<>>
    /\ \E s \in {set_keyboard_report(keyboard, r)} :
          /\ keyboard' = s.self
          /\ host' = [NoCall EXCEPT !.op = "send_report", !.args = r, !.ret = s.ret,
                                    !.before = keyboard.report,
                                    !.leds = keyboard.leds,
                                    !.sending = IF s.ret THEN <<r>> ELSE <<>>]
    /\ UNCHANGED BesideKeyboard

\* One round of `while let Ok(0) = usb_class.lock(|k| k.write(..)) {}`, a
\* lock of its own: Ok(0) goes round the loop, any other answer ends
\* send_report, written or not.
WriteReport(answer) ==
    /\ host.sending # <<>>
    /\ host' = [NoCall EXCEPT !.op = "write", !.args = host.sending[1],
                              !.ret = answer,
                              !.before = keyboard.report,
                              !.leds = keyboard.leds,
                              !.written = IF answer = "Ok"
                                          THEN as_bytes(host.sending[1]) ELSE <<>>,
                              !.sending = IF answer = "Ok(0)" THEN host.sending
                                          ELSE <<>>]
    /\ UNCHANGED keyboard
    /\ UNCHANGED BesideKeyboard

\* A GET_REPORT request of the host.
GetReport(report_type, report_id) ==
    /\ host' = [NoCall EXCEPT !.op = "get_report",
                              !.args = <<report_type, report_id>>,
                              !.ret = get_report(keyboard, report_type, report_id),
                              !.before = keyboard.report,
                              !.leds = keyboard.leds,
                              !.sending = host.sending]
    /\ UNCHANGED keyboard
    /\ UNCHANGED BesideKeyboard

\* A SET_REPORT request of the host.
SetReport(report_type, report_id, data) ==
    /\ \E s \in {set_report(keyboard, report_type, report_id, data)} :
          /\ keyboard' = s.self
          /\ host' = [NoCall EXCEPT !.op = "set_report",
                                    !.args = <<report_type, report_id, data>>,
                                    !.ret = s.ret,
                                    !.before = keyboard.report,
                                    !.leds = keyboard.leds,
                                    !.calls = s.calls,
                                    !.sending = host.sending]
    /\ UNCHANGED BesideKeyboard

KeyboardNext ==
    \/ \E r \in Reports : SendReport(r)
    \/ \E answer \in WriteAnswers : WriteReport(answer)
    \/ \E t \in ReportTypes : \E id \in ReportIds : GetReport(t, id)
    \/ \E t \in ReportTypes : \E id \in ReportIds : \E data \in ReportData :
          SetReport(t, id, data)

KeyboardSpec == KeyboardInit /\ [][KeyboardNext]_vars

\* C28: set_keyboard_report(r) returns true exactly when r differs from the
\* stored report, and afterwards the stored report, which get_report gives
\* for an Input request, is r; the same r again returns false, so the report
\* is written to USB only when it changed: send_report goes on to write
\* exactly when set_keyboard_report returned true, and what a write hands
\* to USB is the report that changed, still the stored one.
C28_ReportSetWhenChanged ==
    /\ host.op = "send_report"
       => /\ host.ret <=> (host.args # host.before)
          /\ keyboard.report = host.args
          /\ \A id \in ReportIds : get_report(keyboard, "Input", id) = Ok(host.args)
          /\ ~set_keyboard_report(keyboard, host.args).ret
          /\ (host.sending # <<>>) <=> (host.args # host.before)
          /\ keyboard.leds = host.leds
    /\ host.sending # <<>> => host.sending[1] = keyboard.report
    /\ host.written # <<>>
       => /\ host.op = "write"
          /\ host.written = as_bytes(keyboard.report)
          /\ host.before = keyboard.report

C28_Witness ==
    /\ host.op = "write"
    /\ host.ret = "Ok"
    /\ host.args # KbHidReport
    /\ host.written = host.args
    /\ keyboard.leds # LedsOff

Bit(d, n) == (d \div (2 ^ n)) % 2 = 1

\* C29: set_report calls the Leds only for an Output report of id 0 with
\* one byte of data: num_lock, caps_lock, scroll_lock, compose and kana, in
\* this order, with the bits 0 to 4 of the byte, and returns Ok; for any
\* other type, id or length it returns Err and calls nothing.
C29_LedsFromOutputReport ==
    host.op = "set_report"
    => /\ keyboard.report = host.before
       /\ IF host.args[1] = "Output" /\ host.args[2] = 0 /\ Len(host.args[3]) = 1
          THEN /\ host.ret.ok
               /\ host.calls = <<(<<"num_lock", Bit(host.args[3][1], 0)>>),
                                 <<"caps_lock", Bit(host.args[3][1], 1)>>,
                                 <<"scroll_lock", Bit(host.args[3][1], 2)>>,
                                 <<"compose", Bit(host.args[3][1], 3)>>,
                                 <<"kana", Bit(host.args[3][1], 4)>>>>
               /\ keyboard.leds.caps_lock = Bit(host.args[3][1], 1)
          ELSE /\ ~host.ret.ok
               /\ host.calls = <<>>
               /\ keyboard.leds = host.leds

C29_Witness ==
    /\ host.op = "set_report"
    /\ host.ret.ok
    /\ host.args[3] = <<18>>
    /\ keyboard.leds = [LedsOff EXCEPT !.caps_lock = TRUE, !.kana = TRUE]
    /\ host.leds # keyboard.leds



(***************************************************************************)
(* examples/keyberon48.rs: the interrupt handlers and their resources.     *)
(***************************************************************************)
MaxBatch == 2

Tasks == {"tick", "usb_tx", "usb_rx"}

\* #[task(binds = ..., priority = ..., resources = [...])]
Priority(task) == IF task = "tick" THEN 1 ELSE 2
Resources(task) ==
    IF task = "tick" THEN {"usb_class", "matrix", "debouncer", "layout", "timer"}
    ELSE {"usb_dev", "usb_class"}

\* The ceiling of a resource: the highest priority of the tasks that
\* declare it.
Ceiling(res) ==
    CHOOSE p \in {Priority(t) : t \in {u \in Tasks : res \in Resources(u)}} :
       \A t \in {u \in Tasks : res \in Resources(u)} : Priority(t) <= p

\* A faulty variant of Locked: the lock leaves the priority as it is.
LockedAtOwnPriority(task, res) == Priority(task)

\* usb_class.lock(...): the priority a task runs its closure at.
Locked(task, res) == Max(Priority(task), Ceiling(res))

Frame(task) ==
    [task |-> task, pc |-> "start", priority |-> Priority(task), left |-> 0,
     modified |-> FALSE, written |-> FALSE, answer |-> "none",
     refused |-> FALSE]

\* A faulty variant of AfterWrite: the write is tried once, Ok(0) ends
\* send_report as the other answers do.
AfterWriteOnce(frame, answer) ==
    [frame EXCEPT !.pc = "sent",
                  !.priority = Priority("tick"),
                  !.written = (answer = "Ok"),
                  !.answer = answer,
                  !.refused = @ \/ answer = "Ok(0)"]

\* `while let Ok(0) = usb_class.lock(|k| k.write(...)) {}`: the lock is
\* left after each write; Ok(0) goes round the loop, Ok(n) and Err(_) end
\* it, the report written or not.
AfterWrite(frame, answer) ==
    [frame EXCEPT !.pc = IF answer = "Ok(0)" THEN "while" ELSE "sent",
                  !.priority = Priority("tick"),
                  !.written = (answer = "Ok"),
                  !.answer = answer,
                  !.refused = @ \/ answer = "Ok(0)"]
Top == rtic.stack[Len(rtic.stack)]
Running(task) == rtic.stack # <<>> /\ Top.task = task
CurrentPriority == IF rtic.stack = <<>> THEN 0 ELSE Top.priority

\* The top frame moves on, touching resources on the way.
Goes(frame, touches) ==
    rtic' = [rtic EXCEPT !.stack[Len(rtic.stack)] = frame,
                         !.touched = @ \cup {<<Top.task, r>> : r \in touches}]
Returns(touches) ==
    rtic' = [rtic EXCEPT !.stack = SubSeq(@, 1, Len(@) - 1),
                         !.touched = @ \cup {<<Top.task, r>> : r \in touches}]

\* The hardware raises an interrupt.
Interrupt(task) ==
    /\ task \notin rtic.pending
    /\ rtic' = [rtic EXCEPT !.pending = @ \cup {task}]
    /\ UNCHANGED BesideRtic

\* A pending interrupt of a priority above the running one is served.
Dispatch(task) ==
    /\ task \in rtic.pending
    /\ Priority(task) > CurrentPriority
    /\ \A o \in rtic.pending : Priority(o) <= Priority(task)
    /\ rtic' = [rtic EXCEPT !.pending = @ \ {task},
                            !.stack = Append(@, Frame(task))]
    /\ UNCHANGED BesideRtic

\* usb_tx and usb_rx: usb_poll on the device and the class.
UsbHandler(task) ==
    /\ task # "tick"
    /\ Running(task)
    /\ \/ /\ Top.pc = "start"
          /\ rtic' = [rtic EXCEPT
                         !.stack[Len(rtic.stack)].pc = "usb_poll",
                         !.touched = @ \cup {<<task, "usb_dev">>, <<task, "usb_class">>},
                         !.endpoint = IF @ = "read" THEN "free" ELSE @]
       \/ Top.pc = "usb_poll" /\ Returns({})
    /\ UNCHANGED BesideRtic

\* The host reads the report waiting in the endpoint: the transfer is
\* complete and a USB interrupt is raised.
HostReads(task) ==
    /\ task # "tick"
    /\ rtic.endpoint = "full"
    /\ rtic' = [rtic EXCEPT !.endpoint = "read", !.pending = @ \cup {task}]
    /\ UNCHANGED BesideRtic

\* tick, up to the first send_report: the timer flag, then the events of
\* the debouncer, each given to the layout, then the tick of the layout.
TickHandler ==
    /\ Running("tick")
    /\ \/ /\ Top.pc = "start"
          /\ \E n \in 0..MaxBatch :
                Goes([Top EXCEPT !.pc = IF n > 0 THEN "event" ELSE "tick", !.left = n],
                     {"timer", "matrix", "debouncer"})
       \/ /\ Top.pc = "event"
          /\ Goes([Top EXCEPT !.pc = "send_report", !.left = @ - 1], {"layout"})
       \/ /\ Top.pc = "tick"
          /\ Goes([Top EXCEPT !.pc = "send_report", !.left = -1], {"layout"})
    /\ UNCHANGED BesideRtic

\* HidClass::write on the interrupt endpoint, the answers it may give: a
\* free endpoint takes the report, one that still holds the last report
\* answers would-block, and the device may answer an error either way.
write(endpoint) == {IF endpoint = "free" THEN "Ok" ELSE "Ok(0)", "Err"}

\* send_report: set_keyboard_report in a lock, then, if the report is
\* modified, write in a lock until the class answers something else than
\* Ok(0).
SendReportLocked ==
    /\ Running("tick")
    /\ \/ /\ Top.pc = "send_report"
          /\ Goes([Top EXCEPT !.pc = "set_keyboard_report",
                              !.priority = Locked("tick", "usb_class"),
                              !.modified = FALSE, !.written = FALSE,
                              !.answer = "none", !.refused = FALSE], {})
       \/ /\ Top.pc = "set_keyboard_report"
          /\ \E modified \in BOOLEAN :
                Goes([Top EXCEPT !.pc = IF modified THEN "while" ELSE "sent",
                                 !.priority = Priority("tick"),
                                 !.modified = modified], {"usb_class"})
       \/ /\ Top.pc = "while"
          /\ Goes([Top EXCEPT !.pc = "write",
                              !.priority = Locked("tick", "usb_class")], {})
       \/ /\ Top.pc = "write"
          /\ \E answer \in write(rtic.endpoint) :
                rtic' = [rtic EXCEPT
                           !.stack[Len(rtic.stack)] = AfterWrite(Top, answer),
                           !.touched = @ \cup {<<"tick", "usb_class">>},
                           !.endpoint = IF answer = "Ok" THEN "full" ELSE @]
       \/ /\ Top.pc = "sent" /\ Top.left > 0
          /\ Goes([Top EXCEPT !.pc = "event"], {})
       \/ /\ Top.pc = "sent" /\ Top.left = 0
          /\ Goes([Top EXCEPT !.pc = "tick"], {})
       \/ /\ Top.pc = "sent" /\ Top.left < 0
          /\ Returns({})
    /\ UNCHANGED BesideRtic

RticInit ==
    /\ New({TableBoard(<<>>)})
    /\ DebouncerIdle
    /\ ChordingIdle
    /\ ReportIdle
    /\ KeyboardIdle
    /\ RticIdle
    /\ ScanIdle

RticNext ==
    \/ \E task \in Tasks : Interrupt(task)
    \/ \E task \in Tasks : Dispatch(task)
    \/ \E task \in Tasks : UsbHandler(task)
    \/ \E task \in Tasks : HostReads(task)
    \/ TickHandler
    \/ SendReportLocked

RticSpec == RticInit /\ [][RticNext]_vars

\* The frames of a task that is inside an access to the HID class.
InClass(frame) ==
    IF frame.task = "tick" THEN frame.pc \in {"set_keyboard_report", "write"}
    ELSE frame.pc = "usb_poll"

\* C30: the HID class is never accessed by the tick handler and a USB
\* handler at once: while the tick handler is inside usb_class.lock no USB
\* handler runs usb_poll, nor do the two USB handlers run together; and the
\* layout, the debouncer and the matrix are touched by the tick handler only.
C30_ClassNeverShared ==
    /\ Cardinality({x \in 1..Len(rtic.stack) : InClass(rtic.stack[x])}) <= 1
    /\ \A x \in 1..Len(rtic.stack) :
          (rtic.stack[x].task = "tick" /\ InClass(rtic.stack[x]))
          => x = Len(rtic.stack)
    /\ \A t \in rtic.touched :
          t[2] \in {"layout", "debouncer", "matrix"} => t[1] = "tick"

C30_Witness ==
    /\ Running("tick")
    /\ Top.pc = "write"
    /\ rtic.pending = {"usb_tx", "usb_rx", "tick"}
    /\ <<"usb_rx", "usb_class">> \in rtic.touched
    /\ <<"tick", "layout">> \in rtic.touched


\* The processor runs the handler on top and serves the interrupts it can
\* take; the host reads what waits in the endpoint.
RticFairSpec ==
    /\ RticSpec
    /\ SF_vars(TickHandler)
    /\ SF_vars(SendReportLocked)
    /\ \A task \in Tasks \ {"tick"} :
          /\ SF_vars(Dispatch(task))
          /\ WF_vars(UsbHandler(task))
    /\ WF_vars(\E task \in Tasks : HostReads(task))

TickOnStack == \E x \in 1..Len(rtic.stack) : rtic.stack[x].task = "tick"
TickFrame == rtic.stack[CHOOSE x \in 1..Len(rtic.stack) : rtic.stack[x].task = "tick"]

\* A report found modified is written at the ceiling of the class; a write
\* answered Ok(0) is always tried again, so send_report never ends on a
\* refusal of the full endpoint: it ends with the report written exactly
\* when the last write was taken, and a modified report is left unwritten
\* only by a write that answered an error.
WrittenIfModified ==
    TickOnStack
    => /\ TickFrame.pc = "write" => TickFrame.priority = Ceiling("usb_class")
       /\ TickFrame.pc = "while"
          => /\ TickFrame.modified /\ ~TickFrame.written
             /\ TickFrame.answer \in {"none", "Ok(0)"}
       /\ TickFrame.answer = "Ok(0)" => TickFrame.pc \in {"while", "write"}
       /\ TickFrame.pc = "sent"
          => /\ TickFrame.written => TickFrame.modified
             /\ TickFrame.written <=> TickFrame.answer = "Ok"
             /\ (TickFrame.modified /\ ~TickFrame.written)
                   => TickFrame.answer = "Err"

RowPins == 1..2
ColPins == 1..3
MatrixCells == RowPins \X ColPins

\* A faulty variant of set_high: the row is left low.
left_low(rows, r) == rows

\* OutputPin::set_low and set_high on the r-th row.
set_low(rows, r) == [rows EXCEPT ![r] = "low"]
set_high(rows, r) == [rows EXCEPT ![r] = "high"]

\* InputPin::is_low on a column with a pull-up: it reads low when a closed
\* switch ties it to a row that is driven low.
is_low(rows, closed, c) == \E r \in RowPins : rows[r] = "low" /\ <<r, c>> \in closed

\* Matrix::new, then Matrix::clear: every row output high.
ScanInit ==
    /\ New({TableBoard(<<>>)})
    /\ DebouncerIdle
    /\ ChordingIdle
    /\ ReportIdle
    /\ KeyboardIdle
    /\ RticIdle
    /\ \E closed \in SUBSET MatrixCells :
          matrix = [rows |-> [r \in RowPins |-> "high"], pc |-> "idle", r |-> 0,
                    c |-> 0, col |-> <<>>, pressed |-> <<>>, closed |-> closed,
                    seen |-> <<>>, low |-> {}]

\* Matrix::get is called: map_mut starts on the first row.
Get ==
    /\ matrix.pc \in {"idle", "returned"}
    /\ matrix' = [matrix EXCEPT !.pc = "set_low", !.r = 1, !.c = 0, !.col = <<>>,
                                !.pressed = <<>>, !.seen = <<>>, !.low = {}]
    /\ UNCHANGED BesideMatrix

\* c.borrow_mut().set_low() and the delay.
SetLow ==
    /\ matrix.pc = "set_low"
    /\ matrix' = [matrix EXCEPT !.rows = set_low(@, matrix.r), !.pc = "is_low",
                                !.c = 1, !.col = <<>>]
    /\ UNCHANGED BesideMatrix

\* cols.map(|r| r.borrow().is_low()), one column: the caller notes for the
\* cell whether its switch was closed and which rows were low.
IsLow ==
    /\ matrix.pc = "is_low"
    /\ matrix' = [matrix EXCEPT
                    !.col = Append(@, is_low(matrix.rows, matrix.closed, matrix.c)),
                    !.seen = Append(@, <<matrix.r, matrix.c>> \in matrix.closed),
                    !.low = {r \in RowPins : matrix.rows[r] = "low"},
                    !.c = @ + 1,
                    !.pc = IF matrix.c = Cardinality(ColPins) THEN "set_high" ELSE @]
    /\ UNCHANGED BesideMatrix

\* c.borrow_mut().set_high(); the row read is the value of the closure.
SetHigh ==
    /\ matrix.pc = "set_high"
    /\ matrix' = [matrix EXCEPT
                    !.rows = set_high(@, matrix.r),
                    !.pressed = Append(@, matrix.col),
                    !.r = @ + 1,
                    !.pc = IF matrix.r = Cardinality(RowPins) THEN "returned"
                           ELSE "set_low"]
    /\ UNCHANGED BesideMatrix

\* A switch is pressed or released, at any moment.
Switch(cell) ==
    /\ matrix' = [matrix EXCEPT !.closed = IF cell \in @ THEN @ \ {cell}
                                           ELSE @ \cup {cell}]
    /\ UNCHANGED BesideMatrix

ScanNext ==
    \/ Get
    \/ SetLow
    \/ IsLow
    \/ SetHigh
    \/ \E cell \in MatrixCells : Switch(cell)

ScanSpec == ScanInit /\ [][ScanNext]_vars

LowRows == {r \in RowPins : matrix.rows[r] = "low"}
Flat(rows) == rows[1] \o (IF Len(rows) > 1 THEN rows[2] ELSE <<>>)

\* C32: during get(), started with every row high, at most one row is low
\* at any time, a column is read only while its row and no other is low, a
\* cell is reported pressed exactly when its switch ties its column low at
\* the turn of its row, and every row is high again when get() returns.
C32_OneRowLowAtATime ==
    /\ Cardinality(LowRows) <= 1
    /\ matrix.pc \in {"idle", "returned", "set_low"} => LowRows = {}
    /\ matrix.pc \in {"is_low", "set_high"} => LowRows = {matrix.r}
    /\ (matrix.pc \in {"is_low", "set_high"} /\ matrix.col # <<>>)
          => matrix.low = {matrix.r}
    /\ Len(matrix.pressed) > 0
          => Flat(matrix.pressed) = SubSeq(matrix.seen, 1, Len(Flat(matrix.pressed)))
    /\ matrix.pc = "returned"
          => /\ Len(matrix.pressed) = Cardinality(RowPins)
             /\ \A r \in RowPins : Len(matrix.pressed[r]) = Cardinality(ColPins)

C32_Witness ==
    /\ matrix.pc = "returned"
    /\ matrix.pressed = <<(<<TRUE, FALSE, TRUE>>), <<TRUE, TRUE, FALSE>>>>
    /\ matrix.closed = {<<1, 2>>, <<2, 3>>}


(***************************************************************************)
(* A press after a hold.                                                   *)
(***************************************************************************)
\* test::tap_hold_interval_short_hold, and the same key with a hold action
\* that is itself a HoldTap with a tap_hold_interval.
ShortHoldBoard(t, ks, b) ==
    [layers |-> << <<Row(HoldTap(t,
                                 HoldTap(MaxTimeout, k("LAlt"), k("Enter"),
                                         ConfigDefault, MaxInterval),
                                 k("Space"), ConfigDefault, MaxInterval),
                         k("B"), NoOp)>> >>,
     keys |-> ks, burst |-> b]

ShortHoldBoards ==
    {HoldTapBoard(t, ConfigDefault, MaxInterval) : t \in 0..MaxTimeout}
    \cup {InterleaveBoard(a) : a \in {k("B"), NoOp}}
    \cup {ShortHoldBoard(t, {K0, K1}, "no") : t \in 0..1}
    \cup {ShortHoldBoard(0, {K0}, "first")}

ShortHoldSpec == InitOn(ShortHoldBoards) /\ [][Next]_vars

\* C34: if a press of a HoldTap key with tap_hold_interval > 0 was resolved
\* as hold, the next press of the same key, even when it is applied within
\* tap_hold_interval ticks of the previous press, is not tapped at once: it
\* installs a waiting state.
C34_PressAfterHoldWaits ==
    \A p \in Pressed :
        (p.type = "HoldTap" /\ p.interval > 0
         /\ p.prev.coord = p.coord /\ p.prev.first = "Hold")
        => p.installs

\* The hold action was a plain key code: the press after it waits.
C34_Witness ==
    \E p \in Pressed :
        /\ p.type = "HoldTap" /\ p.interval > 0 /\ p.prev.coord = p.coord
        /\ p.prev.first = "Hold" /\ p.prev.outcome = "Hold"
        /\ p.prev.ticks < p.interval
        /\ p.installs


(***************************************************************************)
(* The sum of WaitingState::tick at the end of the u16 range.              *)
(***************************************************************************)
\* A HoldTap key alone, with a timeout at the end of the range of u16.
LongTimeoutBoard(t, b) ==
    [layers |-> << <<Row(HoldTap(t, k("LAlt"), k("Space"), ConfigDefault, 0),
                         NoOp, NoOp)>> >>,
     keys |-> {K0}, burst |-> b]

LongTimeoutBoards ==
    {LongTimeoutBoard(t, "no") : t \in {MaxTimeout, U16Max - 1}}
    \cup {LongTimeoutBoard(MaxTimeout, "first")}

LongTimeoutSpec == InitOn(LongTimeoutBoards) /\ [][Next]_vars

\* C37: in WaitingState::tick the sum timeout + since of the tap/hold
\* comparison never exceeds 65535, whatever the configured timeout and the
\* age of the queued Release: nothing panics and the decision is the one of
\* the exact sum.
C37_SumFitsU16 ==
    /\ ~panicked
    /\ \A x \in Consulted :
          x.release_stacked
          => /\ x.remaining + x.release_since <= U16Max
             /\ x.how = DefaultRule(x)

\* A sum that just fits: timeout 65534 run down to 65533, a Release aged 2.
C37_SumAtTheEnd ==
    \E x \in Consulted :
        /\ x.release_stacked /\ x.timeout = U16Max - 1
        /\ x.remaining + x.release_since = U16Max
        /\ x.how = "Tap"


\* C35: performing a MultipleActions list that contains a HoldTap beside
\* other actions never fails the assertion of do_action: the tick that
\* applies the Press of such a key performs every member without panic,
\* wherever the HoldTap stands in the list, and leaves its waiting state
\* installed.
C35_MultipleWithHoldTap ==
    \A p \in Pressed :
        (p.type = "MultipleActions" /\ p.coord = K0 /\ layers # MultiBoard.layers)
        => ~panicked /\ p.installs

\* The HoldTap is the last member: the members before it are performed and
\* its waiting state is installed.
C35_HoldTapLast ==
    \E p \in Pressed :
        /\ p.type = "MultipleActions" /\ p.installs /\ ~panicked
        /\ states = <<NormalKey("LShift", K0)>>


(***************************************************************************)
(* Custom events when the ring overflows.                                  *)
(***************************************************************************)
\* test::custom's key alone, its events registered in one burst.
CustomBurstBoard ==
    [layers |-> << <<Row(CustomAction(42), NoOp, NoOp)>> >>,
     keys |-> {K0}, burst |-> "first"]

CustomRingSpec == InitOn({CustomBoard, CustomBurstBoard}) /\ [][Next]_vars

\* The Custom state of coordinate c is in the state set st.
CustomKept(st, c) ==
    \E x \in 1..Len(st) : st[x].kind = "Custom" /\ st[x].coord = c

\* C36: over any calls of event() and tick(), the overflowing ones
\* included, for each key bound to Custom(v): every insertion of its Custom
\* state happens in a tick() that returns Press(v), every removal in a
\* tick() that returns Release(v), and Release(v) is returned only for a
\* state that was inserted.
C36_CustomPaired ==
    [][\A c \in keys : \A a \in {Entry(layers, 0, c)[1]} :
          a.type = "Custom" =>
             /\ (CustomKept(states', c) /\ ~CustomKept(states, c))
                   => (TickCall /\ last'.custom = CustomPress(a.value))
             /\ (~CustomKept(states', c) /\ CustomKept(states, c))
                   => (TickCall /\ last'.custom = CustomRelease(a.value))
             /\ (TickCall /\ last' # last /\ last'.custom = CustomRelease(a.value))
                   => CustomKept(states, c)
      ]_vars

\* Without overflow: the Release of the custom key is reported by the tick
\* that removes its state.
C36_ReportedRelease ==
    /\ burst = "no" /\ last.op = "tick" /\ last.custom = CustomRelease(42)
    /\ last.applied = <<[kind |-> "Release", coord |-> K0]>>
    /\ ~CustomKept(states, K0)


\* The events of a vector at one position, in order.
At(vec, coord) == SelectSeq(vec, LAMBDA e : e.coord = coord)

\* C38: for each chord, over the calls of tick, the Press(result) and
\* Release(result) handed on alternate, starting with Press: in the vector
\* a call returns, the first event at the result position is a Press
\* exactly when the last one handed on before was not, and each further
\* one is a Press exactly when the one before it is a Release; so no
\* second Press(result) comes while the chord is in progress and no
\* Release(result) while it is not.
C38_ResultsAlternate ==
    [][\A x \in 1..Len(chording.chords) :
          LET res == chording.chords[x].def.result
              evs == At(chorded'.output, res)
          IN \A y \in 1..Len(evs) :
                is_press(evs[y])
                   <=> IF y = 1 THEN res \notin chorded.open
                       ELSE is_release(evs[y - 1])
      ]_vars

\* C39: fed with presses and releases that alternate for each key, the
\* chording never hands on a press while swallowing its release: after
\* every call of tick, a key whose last event handed on is a press is still
\* held, and a chord result whose last event handed on is a press has one
\* of its chord's keys still held.
C39_PressesGetReleased ==
    ~chording.panicked =>
       \A c \in chorded.open :
          IF c \in chorded.keys THEN c \in chorded.down
          ELSE \E x \in 1..Len(chording.chords) :
                  /\ chording.chords[x].def.result = c
                  /\ ChordKeys(chording.chords[x]) \cap chorded.down # {}

\* A key pressed alone and released alone: both events are handed on.
C39_HandedOn ==
    /\ chorded.input = <<ReleaseOf(<<0, 0>>)>>
    /\ chorded.output = <<ReleaseOf(<<0, 0>>)>>
    /\ chorded.open = {} /\ chorded.down = {}
    /\ ~Idle(chorded.before)


(***************************************************************************)
(* A short tap.                                                            *)
(***************************************************************************)
\* The Release of coordinate c, about to be applied, removes a key code of
\* the last applied press: one that is in the state set, or the hold key
\* code that the overflowing event() inserts just before.
RemovesKeyCode(c) ==
    /\ hist.coord = c
    /\ lastApplied[c] = "press"
    /\ \/ \E x \in 1..Len(states) :
             states[x].kind = "NormalKey" /\ states[x].coord = c
       \/ /\ OverflowCall /\ waiting # <<>>
          /\ waiting[1].coord = c /\ waiting[1].hold.type = "KeyCode"

\* When a Release that removes a key code is applied, a tick() has returned
\* since the key code was inserted; clean restricts this to the presses
\* that no overflow of the ring has touched.
ShownBeforeRelease(clean) ==
    applied' # applied =>
       \A e \in {Head(stacked).event} :
          (is_release(e) /\ RemovesKeyCode(e.coord)
           /\ (clean => (hist.clean /\ ~OverflowCall)))
          => hist.shown

\* C40, as stated: every Press whose resolved action inserts a key code
\* makes the code visible in keycodes() after at least one tick() before
\* its Release is applied, so a Press and its Release are never both
\* applied between two consecutive returns of tick().
C40_TapVisible == [][ShownBeforeRelease(FALSE)]_vars

\* C40, amended: the same for the presses that are applied, resolved and
\* released while no event() finds the ring full.
C40_TapVisibleWithoutOverflow == [][ShownBeforeRelease(TRUE)]_vars

\* A Press and its Release registered before the same tick: the Release is
\* applied one tick after the Press, the key code having been shown.
C40_Witness ==
    /\ registered = <<[kind |-> "Press", coord |-> K1],
                      [kind |-> "Release", coord |-> K1]>>
    /\ applied = registered
    /\ last.op = "tick" /\ nevents = 2
    /\ hist.coord = K1 /\ hist.shown /\ hist.clean /\ hist.ticks = 1
    /\ keycodes(states) = <<>>

=============================================================================
